---------------------------- MODULE Spec2Model ----------------------------
(***************************************************************************)
(* A model of the PID simulation package: the PIDController control law    *)
(* (src/src/pid_controller.py) and the closed loop PIDSimulator drives     *)
(* between it and a plant (src/src/simulator.py, src/src/plant_models.py). *)
(*                                                                         *)
(* Numbers.  The program computes with Python floats (IEEE-754 binary64): *)
(* each +, -, * and / returns the exact result rounded to the nearest      *)
(* value with a 53-bit significand, ties to even.  The model keeps that    *)
(* rounding and narrows the significand to Precision bits.  A number is    *)
(* the exact value it stands for, a pair <<n, d>> in lowest terms with     *)
(* d > 0; None is the empty tuple <<>>.  The exponent is not bounded: the  *)
(* values of the model stay far from overflow, underflow, inf and nan.     *)
(*                                                                         *)
(* Specifications.  Spec: the controller alone.  SpecSim: the closed loop  *)
(* of run_simulation.  SpecResponse: step_response and ramp_response.      *)
(* SpecPlant: one plant, updated and reset.  SpecSummary: results filled   *)
(* by add_data_point and summarised by get_summary.                        *)
(***************************************************************************)
EXTENDS Integers, Sequences, FiniteSets, TLC

VARIABLES
    controller,   \* the PIDController object: its fields, as a record
    call,         \* the last call made: operation, arguments, path taken
    ret,          \* what that call returned
    plant,        \* the PlantModel object: its class and fields, as a record
    sim,          \* the PIDSimulator object's own fields, as a record
    pc,           \* where run_simulation stands: idle, loop, returned, raised
    run,          \* run_simulation's arguments and locals
    results,      \* the SimulationResults of the current or last run
    first,        \* the first run that returned: its call and its results
    runs,         \* run_simulation calls made so far
    updates       \* direct plant.update calls counted against their bound

ctlvars == <<controller, call, ret>>

simvars == <<plant, sim, pc, run, results, first, runs, updates>>

vars == <<controller, call, ret, plant, sim, pc, run, results, first,
          runs, updates>>

---------------------------------------------------------------------------
(* Float arithmetic: Python's float +, -, *, /, comparisons and int().     *)

None == <<>>

Abs(n) == IF n < 0 THEN -n ELSE n

RECURSIVE GCD(_, _)
GCD(a, b) == IF b = 0 THEN a ELSE GCD(b, a % b)

Lowest(n, d, g) == <<n \div g, d \div g>>

\* the value n/d, in lowest terms
R(n, d) ==
    IF d < 0 THEN Lowest(-n, -d, GCD(Abs(n), -d))
    ELSE Lowest(n, d, GCD(Abs(n), d))

Zero == R(0, 1)

\* bits of the significand (53 in binary64)
Precision == 5

Pow2(k) == 2 ^ k

\* n/d * 2^k as a fraction, for n, d > 0
Scaled(n, d, k) == IF k >= 0 THEN <<n * Pow2(k), d>> ELSE <<n, d * Pow2(-k)>>

\* the fraction s lies below, or at or above, the significand's range
TooSmall(s) == s[1] < Pow2(Precision - 1) * s[2]

TooLarge(s) == s[1] >= Pow2(Precision) * s[2]

\* the k that brings n/d * 2^k into [2^(Precision-1), 2^Precision)
RECURSIVE Exponent(_, _, _)
Exponent(n, d, k) ==
    IF TooSmall(Scaled(n, d, k)) THEN Exponent(n, d, k + 1)
    ELSE IF TooLarge(Scaled(n, d, k)) THEN Exponent(n, d, k - 1)
    ELSE k

\* n/d to the nearest integer, ties to even, for n >= 0, d > 0
RoundHalfEven(n, d) ==
    IF 2 * (n % d) < d THEN n \div d
    ELSE IF 2 * (n % d) > d THEN (n \div d) + 1
    ELSE IF (n \div d) % 2 = 0 THEN n \div d
    ELSE (n \div d) + 1

\* the integer m rounded from s, at exponent -k: the value m / 2^k
Significand(s, k) ==
    IF k >= 0
    THEN R(RoundHalfEven(s[1], s[2]), Pow2(k))
    ELSE R(RoundHalfEven(s[1], s[2]) * Pow2(-k), 1)

\* the float nearest to n/d, for n, d > 0, given its exponent
Nearest(n, d, k) == Significand(Scaled(n, d, k), k)

Neg(a) == <<-a[1], a[2]>>

\* x, in lowest terms, is m / 2^j with |m| < 2^Precision: a float already
Representable(x) ==
    /\ Abs(x[1]) < Pow2(Precision)
    /\ \E j \in 0..(2 * Precision) : x[2] = Pow2(j)

\* the float nearest to the exact value x
Fl(x) ==
    IF Representable(x) THEN x
    ELSE IF x[1] < 0 THEN Neg(Nearest(-x[1], x[2], Exponent(-x[1], x[2], 0)))
    ELSE Nearest(x[1], x[2], Exponent(x[1], x[2], 0))

OverCommon(a, b, g) ==
    <<a[1] * (b[2] \div g), b[1] * (a[2] \div g), a[2] * (b[2] \div g)>>

\* the two numerators over the least common denominator
Common(a, b) == OverCommon(a, b, GCD(a[2], b[2]))

CrossReduced(a, b, g, h) ==
    R((a[1] \div g) * (b[1] \div h), (a[2] \div h) * (b[2] \div g))

\* the exact product
Product(a, b) == CrossReduced(a, b, GCD(Abs(a[1]), b[2]), GCD(Abs(b[1]), a[2]))

Sum(c) == R(c[1] + c[2], c[3])

Difference(c) == R(c[1] - c[2], c[3])

RAdd(a, b) == Fl(Sum(Common(a, b)))

RSub(a, b) == Fl(Difference(Common(a, b)))

RMul(a, b) == Fl(Product(a, b))

RDiv(a, b) == Fl(Product(a, R(b[2], b[1])))

Less(c) == c[1] < c[2]

RLt(a, b) == Less(Common(a, b))

RLe(a, b) == ~Less(Common(b, a))

\* int(x): truncation toward zero
IntTrunc(a) == IF a[1] >= 0 THEN a[1] \div a[2] ELSE -((-a[1]) \div a[2])

\* math.sqrt, correctly rounded.  n/d * 4^k lies below, or at or above, the
\* range [4^(Precision-1), 4^Precision) of a squared significand
RootTooSmall(t) == t[1] \div t[2] < Pow2(2 * (Precision - 1))

RootTooLarge(t) == t[1] \div t[2] >= Pow2(2 * Precision)

\* n/d * f as a fraction, g the common divisor of f and d
ScaledBy(n, d, f, g) == <<n * (f \div g), d \div g>>

\* n/d * 4^k as a fraction, for n, d > 0
RootScaled(n, d, k) ==
    IF k >= 0 THEN ScaledBy(n, d, Pow2(2 * k), GCD(Pow2(2 * k), d))
    ELSE <<n, d * Pow2(-2 * k)>>

RECURSIVE RootExponent(_, _, _)
RootExponent(n, d, k) ==
    IF RootTooSmall(RootScaled(n, d, k)) THEN RootExponent(n, d, k + 1)
    ELSE IF RootTooLarge(RootScaled(n, d, k)) THEN RootExponent(n, d, k - 1)
    ELSE k

\* the largest significand m with m^2 <= t
RootFloor(t) ==
    CHOOSE m \in Pow2(Precision - 1)..(Pow2(Precision) - 1) :
        /\ m * m * t[2] <= t[1]
        /\ (m + 1) * (m + 1) * t[2] > t[1]

\* m or m + 1, whichever is nearer to the root of t, ties to even
RootRounded(t, m) ==
    IF (2 * m + 1) * (2 * m + 1) * t[2] > 4 * t[1] THEN m
    ELSE IF (2 * m + 1) * (2 * m + 1) * t[2] < 4 * t[1] THEN m + 1
    ELSE IF m % 2 = 0 THEN m
    ELSE m + 1

\* the value m / 2^k
AtExponent(m, k) == IF k >= 0 THEN R(m, Pow2(k)) ELSE R(m * Pow2(-k), 1)

RootNearest(t, k) == AtExponent(RootRounded(t, RootFloor(t)), k)

RootAt(n, d, k) == RootNearest(RootScaled(n, d, k), k)

\* math.sqrt(a) for a >= 0
Sqrt(a) ==
    IF a[1] = 0 THEN Zero ELSE RootAt(a[1], a[2], RootExponent(a[1], a[2], 0))

---------------------------------------------------------------------------
(* Input domains.                                                          *)

MaxTime == 2

\* (kp, ki, kd): P only, and full PID
Tunings == {<<R(2, 1), R(0, 1), R(0, 1)>>,
            <<R(1, 1), R(1, 2), R(1, 2)>>}

Setpoints == {R(0, 1), R(3, 1)}

ProcessValues == {R(9, 8), R(5, 1)}

Times == {R(t, 1) : t \in 0..MaxTime}

SampleTimes == {R(1, 2)}

\* process values get_components is asked about
ComponentValues == {R(5, 1)}

\* (output_min, output_max)
Limits == {<<None, None>>, <<R(-3, 1), R(3, 1)>>}

---------------------------------------------------------------------------
(* PIDController                                                           *)

\* __init__
PIDController(kp, ki, kd, setpoint, sample_time) ==
    [kp |-> kp, ki |-> ki, kd |-> kd,
     setpoint |-> setpoint, sample_time |-> sample_time,
     last_error |-> Zero, integral |-> Zero, last_time |-> None,
     output_min |-> None, output_max |-> None,
     time_history |-> <<>>, error_history |-> <<>>,
     output_history |-> <<>>, setpoint_history |-> <<>>,
     process_variable_history |-> <<>>]

set_tunings(c, kp, ki, kd) == [c EXCEPT !.kp = kp, !.ki = ki, !.kd = kd]

\* a setter that also restarts the accumulator
set_setpoint_ClearsIntegral(c, setpoint) ==
    [c EXCEPT !.setpoint = setpoint, !.integral = Zero]

set_setpoint(c, setpoint) == [c EXCEPT !.setpoint = setpoint]

set_output_limits(c, min_output, max_output) ==
    [c EXCEPT !.output_min = min_output, !.output_max = max_output]

\* a reset that also drops the output limits
reset_DropsLimits(c) ==
    [c EXCEPT !.last_error = Zero, !.integral = Zero, !.last_time = None,
              !.time_history = <<>>, !.error_history = <<>>,
              !.output_history = <<>>, !.setpoint_history = <<>>,
              !.process_variable_history = <<>>,
              !.output_min = None, !.output_max = None]

reset(c) ==
    [c EXCEPT !.last_error = Zero, !.integral = Zero, !.last_time = None,
              !.time_history = <<>>, !.error_history = <<>>,
              !.output_history = <<>>, !.setpoint_history = <<>>,
              !.process_variable_history = <<>>]

\* error = self.setpoint - process_variable
Error(c, process_variable) == RSub(c.setpoint, process_variable)

\* a first call that already returns the proportional term
InitializeStep_ReturnsP(c, error, current_time) ==
    [c    |-> [c EXCEPT !.last_time = current_time, !.last_error = error],
     out  |-> RMul(c.kp, error),
     path |-> "seed"]

\* a first call that does not record its timestamp
InitializeStep_ForgetsTime(c, error, current_time) ==
    [c    |-> [c EXCEPT !.last_error = error],
     out  |-> Zero,
     path |-> "seed"]

\* the branch "if self._last_time is None"
InitializeStep(c, error, current_time) ==
    [c    |-> [c EXCEPT !.last_time = current_time, !.last_error = error],
     out  |-> Zero,
     path |-> "seed"]

\* a stale call that still records its error
StaleStep_RecordsError(c, error, current_time) ==
    [c |-> [c EXCEPT !.last_error = error], out |-> Zero, path |-> "stale"]

\* the branch "if dt <= 0.0"
StaleStep(c, error, current_time) == [c |-> c, out |-> Zero, path |-> "stale"]

\* an integral term taken from the accumulator before the increment
RawOutput_OldIntegral(c, error, dt, integral) ==
    RAdd(RAdd(RMul(c.kp, error), RMul(c.ki, c.integral)),
         RDiv(RMul(c.kd, RSub(error, c.last_error)), dt))

\* proportional + integral + derivative, integral taken after the increment
RawOutput(c, error, dt, integral) ==
    RAdd(RAdd(RMul(c.kp, error), RMul(c.ki, integral)),
         RDiv(RMul(c.kd, RSub(error, c.last_error)), dt))

BelowMin(c, output) == c.output_min # None /\ RLt(output, c.output_min)

AboveMax(c, output) == c.output_max # None /\ RLt(c.output_max, output)

\* "Apply output limits": the output returned
LimitOutput(c, output) ==
    IF BelowMin(c, output) THEN c.output_min
    ELSE IF AboveMax(c, output) THEN c.output_max
    ELSE output

\* "Apply output limits": the accumulator kept (anti-windup)
AntiWindup(c, output, integral, increment) ==
    IF BelowMin(c, output) THEN RSub(integral, increment)
    ELSE IF AboveMax(c, output) THEN RSub(integral, increment)
    ELSE integral

\* a step whose clamped output is left out of the output history
Record_RawOnly(c, current_time, error, output, process_variable, integral) ==
    [c EXCEPT !.integral = integral,
              !.time_history = Append(@, current_time),
              !.error_history = Append(@, error),
              !.output_history =
                  IF BelowMin(c, output) \/ AboveMax(c, output)
                     \/ output = c.output_min \/ output = c.output_max
                  THEN @ ELSE Append(@, output),
              !.setpoint_history = Append(@, c.setpoint),
              !.process_variable_history = Append(@, process_variable),
              !.last_error = error,
              !.last_time = current_time]

\* "Update history" and "Update state"
Record(c, current_time, error, output, process_variable, integral) ==
    [c EXCEPT !.integral = integral,
              !.time_history = Append(@, current_time),
              !.error_history = Append(@, error),
              !.output_history = Append(@, output),
              !.setpoint_history = Append(@, c.setpoint),
              !.process_variable_history = Append(@, process_variable),
              !.last_error = error,
              !.last_time = current_time]

\* the end of compute, given the output before and after the limits and
\* the accumulator kept
UpdateState(c, error, process_variable, current_time, raw, output, kept) ==
    [c    |-> Record(c, current_time, error, output, process_variable, kept),
     out  |-> output,
     path |-> IF output = raw THEN "step" ELSE "clamped"]

\* "Apply output limits", given the total output
ApplyLimits(c, error, process_variable, current_time, increment, integral, raw) ==
    UpdateState(c, error, process_variable, current_time, raw,
                LimitOutput(c, raw), AntiWindup(c, raw, integral, increment))

\* "Calculate total output", given self._integral after the increment
TotalOutput(c, error, dt, process_variable, current_time, increment, integral) ==
    ApplyLimits(c, error, process_variable, current_time, increment, integral,
                RawOutput(c, error, dt, integral))

\* "Integral term", given the increment error * dt
IntegralTerm(c, error, dt, process_variable, current_time, increment) ==
    TotalOutput(c, error, dt, process_variable, current_time, increment,
                RAdd(c.integral, increment))

\* the rest of compute: an initialized step with dt > 0
ControlStep(c, error, dt, process_variable, current_time) ==
    IntegralTerm(c, error, dt, process_variable, current_time, RMul(error, dt))

\* compute from "Calculate time delta", given dt
TimeDelta(c, error, dt, process_variable, current_time) ==
    IF RLe(dt, Zero) THEN StaleStep(c, error, current_time)
    ELSE ControlStep(c, error, dt, process_variable, current_time)

\* compute from "Initialize on first call", given the error
FirstCall(c, error, process_variable, current_time) ==
    IF c.last_time = None THEN InitializeStep(c, error, current_time)
    ELSE TimeDelta(c, error, RSub(current_time, c.last_time),
                   process_variable, current_time)

compute(c, process_variable, current_time) ==
    FirstCall(c, Error(c, process_variable), process_variable, current_time)

\* Python truthiness of an Optional[float]: None and 0.0 are false
Truthy(x) == x # None /\ x # Zero

\* (p_component, i_component, d_component), given the error
Components(c, error) ==
    <<RMul(c.kp, error),
      RMul(c.ki, c.integral),
      IF Truthy(c.last_time)
      THEN RDiv(RMul(c.kd, RSub(error, c.last_error)), c.sample_time)
      ELSE Zero>>

get_components(c, process_variable) ==
    Components(c, Error(c, process_variable))

---------------------------------------------------------------------------
(* Plant models.  noise_level is 0 throughout: no random draw is made.     *)

FirstOrderSystem(time_constant, gain, initial_state) ==
    [kind |-> "FirstOrderSystem",
     state |-> initial_state, initial_state |-> initial_state,
     time_constant |-> time_constant, gain |-> gain, noise_level |-> Zero]

SecondOrderSystem(natural_frequency, damping_ratio, gain, initial_position, initial_velocity) ==
    [kind |-> "SecondOrderSystem",
     state |-> initial_position, initial_state |-> initial_position,
     natural_frequency |-> natural_frequency,
     damping_ratio |-> damping_ratio, gain |-> gain,
     velocity |-> initial_velocity, initial_velocity |-> initial_velocity,
     noise_level |-> Zero]

MotorModel(resistance, inductance, motor_constant, inertia, friction, initial_speed, initial_current) ==
    [kind |-> "MotorModel",
     state |-> initial_speed, initial_state |-> initial_speed,
     R |-> resistance, L |-> inductance,
     Kt |-> motor_constant, Ke |-> motor_constant,
     J |-> inertia, B |-> friction,
     current |-> initial_current, initial_current |-> initial_current]

TankSystem(tank_area, outlet_coefficient, initial_level, max_level) ==
    [kind |-> "TankSystem",
     state |-> initial_level, initial_state |-> initial_level,
     area |-> tank_area, k_outlet |-> outlet_coefficient,
     max_level |-> max_level]

\* a reset that restores nothing
BaseReset_KeepsState(p) == p

\* PlantModel.reset
BaseReset(p) == [p EXCEPT !.state = p.initial_state]

\* every subclass left with the base class's reset
PlantReset_BaseOnly(p) == BaseReset(p)

\* a reset that also forgets the motor's position accumulator
PlantReset_ClearsPosition(p) ==
    [f \in DOMAIN p \ {"position"} |->
        IF f = "state" THEN p.initial_state
        ELSE IF f = "velocity" THEN p.initial_velocity
        ELSE IF f = "current" THEN p.initial_current
        ELSE p[f]]

\* reset(), as the plant's class defines or inherits it
PlantReset(p) ==
    IF p.kind = "SecondOrderSystem"
    THEN [BaseReset(p) EXCEPT !.velocity = p.initial_velocity]
    ELSE IF p.kind = "MotorModel"
    THEN [BaseReset(p) EXCEPT !.current = p.initial_current]
    ELSE BaseReset(p)

\* the plant after update and the output returned, given the new state
Output(p, state) == [p |-> [p EXCEPT !.state = state], out |-> state]

\* dydt = (self.gain * control_input - self.state) / self.time_constant
Dydt(p, control_input) ==
    RDiv(RSub(RMul(p.gain, control_input), p.state), p.time_constant)

FirstOrderUpdate(p, control_input, dt) ==
    Output(p, RAdd(p.state, RMul(Dydt(p, control_input), dt)))

\* acceleration = wn*wn*gain*u - 2*zeta*wn*velocity - wn*wn*state
Acceleration(p, control_input, wn, zeta) ==
    RSub(RSub(RMul(RMul(RMul(wn, wn), p.gain), control_input),
              RMul(RMul(RMul(R(2, 1), zeta), wn), p.velocity)),
         RMul(RMul(wn, wn), p.state))

\* "Euler integration", given the new velocity
Integrate(p, dt, velocity) ==
    Output([p EXCEPT !.velocity = velocity], RAdd(p.state, RMul(velocity, dt)))

SecondOrderUpdate(p, control_input, dt) ==
    Integrate(p, dt,
              RAdd(p.velocity,
                   RMul(Acceleration(p, control_input, p.natural_frequency,
                                     p.damping_ratio), dt)))

\* di_dt = (voltage - self.R * self.current - back_emf) / self.L
DiDt(p, voltage, back_emf) ==
    RDiv(RSub(RSub(voltage, RMul(p.R, p.current)), back_emf), p.L)

\* dw_dt = (motor_torque - self.B * self.state - load_torque) / self.J
DwDt(p, motor_torque, load_torque) ==
    RDiv(RSub(RSub(motor_torque, RMul(p.B, p.state)), load_torque), p.J)

\* "Motor torque" and "Angular velocity dynamics", given the new current
Mechanical(p, dt, load_torque, current) ==
    Output([p EXCEPT !.current = current],
           RAdd(p.state,
                RMul(DwDt(p, RMul(p.Kt, current), load_torque), dt)))

MotorUpdate(p, voltage, dt, load_torque) ==
    Mechanical(p, dt, load_torque,
               RAdd(p.current,
                    RMul(DiDt(p, voltage, RMul(p.Ke, p.state)), dt)))

\* "Prevent negative levels": if self.state < 0: self.state = 0
NonNegative(p) == IF RLt(p.state, Zero) THEN [p EXCEPT !.state = Zero] ELSE p

\* max(a, b) and min(a, b) of Python: the first argument unless the second
\* is greater, or smaller
PyMax(a, b) == IF RLt(a, b) THEN b ELSE a

PyMin(a, b) == IF RLt(b, a) THEN b ELSE a

\* the operand handed to math.sqrt: max(self.state, 0)
RootOperand(p) == PyMax(p.state, Zero)

\* outflow_rate = self.k_outlet * math.sqrt(max(self.state, 0))
OutflowRate(p) == RMul(p.k_outlet, Sqrt(RootOperand(p)))

\* dh_dt = (inflow_rate - outflow_rate) / self.area
DhDt(p, inflow_rate) == RDiv(RSub(inflow_rate, OutflowRate(p)), p.area)

\* a level that ignores the tank's limits
Constrain_Unlimited(p, level) == level

\* "Constrain to physical limits": max(0, min(self.state, self.max_level))
Constrain(p, level) == PyMax(Zero, PyMin(level, p.max_level))

\* "Level dynamics" and "Constrain to physical limits", on the tank whose
\* negative level has been raised to 0
LevelDynamics(p, inflow_rate, dt) ==
    Output(p, Constrain(p, RAdd(p.state, RMul(DhDt(p, inflow_rate), dt))))

TankUpdate(p, inflow_rate, dt) == LevelDynamics(NonNegative(p), inflow_rate, dt)

\* no plant's update taken to have a load_torque argument
HasLoadTorque_Never(p) == FALSE

\* 'load_torque' in self.plant.update.__code__.co_varnames
HasLoadTorque(p) == p.kind = "MotorModel"

\* update(control_input, dt), as the plant's class defines it; MotorModel's
\* load_torque defaults to 0.0
PlantUpdate(p, control_input, dt) ==
    IF p.kind = "FirstOrderSystem"
    THEN FirstOrderUpdate(p, control_input, dt)
    ELSE IF p.kind = "SecondOrderSystem"
    THEN SecondOrderUpdate(p, control_input, dt)
    ELSE IF p.kind = "TankSystem"
    THEN TankUpdate(p, control_input, dt)
    ELSE MotorUpdate(p, control_input, dt, Zero)

---------------------------------------------------------------------------
(* SimulationResults and PIDSimulator.  real_time is False and the         *)
(* simulator's noise_level is 0 throughout: no sleep, no random draw.      *)

SimulationResults ==
    [time |-> <<>>, setpoint |-> <<>>, process_variable |-> <<>>,
     control_output |-> <<>>, error |-> <<>>,
     p_component |-> <<>>, i_component |-> <<>>, d_component |-> <<>>]

add_data_point(res, t, sp, pv, co, error, p, i, d) ==
    [time |-> Append(res.time, t),
     setpoint |-> Append(res.setpoint, sp),
     process_variable |-> Append(res.process_variable, pv),
     control_output |-> Append(res.control_output, co),
     error |-> Append(res.error, error),
     p_component |-> Append(res.p_component, p),
     i_component |-> Append(res.i_component, i),
     d_component |-> Append(res.d_component, d)]

\* abs(a)
RAbs(a) == <<Abs(a[1]), a[2]>>

\* seq[-1]
Last(seq) == seq[Len(seq)]

\* the running totals with one more item added
Added(totals, item) == Append(totals, RAdd(Last(totals), item))

\* the running totals 0, 0 + seq[0], 0 + seq[0] + seq[1] ... of the first i
\* items
RECURSIVE Totals(_, _)
Totals(seq, i) ==
    IF i = 0 THEN <<Zero>> ELSE Added(Totals(seq, i - 1), seq[i])

\* sum(seq) of CPython 3.11: 0 + seq[0] + seq[1] + ..., left to right
PySum(seq) == Last(Totals(seq, Len(seq)))

\* errors taken with their sign
AbsErrors_Signed(res) == res.error

\* abs_errors = [abs(e) for e in self.error]
AbsErrors(res) == [i \in 1..Len(res.error) |-> RAbs(res.error[i])]

\* squared_errors = [e**2 for e in self.error]
SquaredErrors(res) ==
    [i \in 1..Len(res.error) |-> RMul(res.error[i], res.error[i])]

\* the literal 0.02
TwoPercent == Fl(R(1, 50))

\* tolerance = 0.02 * abs(setpoint_value) if setpoint_value != 0 else 0.02
Tolerance(setpoint_value) ==
    IF setpoint_value # Zero THEN RMul(TwoPercent, RAbs(setpoint_value))
    ELSE TwoPercent

\* abs(self.process_variable[i] - setpoint_value) > tolerance
OutsideBand(res, setpoint_value, i) ==
    RLt(Tolerance(setpoint_value),
        RAbs(RSub(res.process_variable[i], setpoint_value)))

\* a scan that stops at the sample just examined, whatever its value
SettlingTime_LastSample(res, setpoint_value, i) ==
    IF i = 0 THEN None ELSE res.time[i]

\* for i in range(len(self.process_variable) - 1, -1, -1): the scan from
\* sample i (counted from 1) downwards
RECURSIVE SettlingTime(_, _, _)
SettlingTime(res, setpoint_value, i) ==
    IF i = 0 THEN None
    ELSE IF OutsideBand(res, setpoint_value, i)
    THEN IF i < Len(res.time) THEN res.time[i] ELSE res.time[Len(res.time)]
    ELSE SettlingTime(res, setpoint_value, i - 1)

\* an overshoot that keeps its sign
Overshoot_Signed(pv, setpoint_value) ==
    RMul(RDiv(RSub(pv, setpoint_value), setpoint_value), R(100, 1))

\* overshoot = abs((pv - setpoint_value) / setpoint_value) * 100
Overshoot(pv, setpoint_value) ==
    RMul(RAbs(RDiv(RSub(pv, setpoint_value), setpoint_value)), R(100, 1))

\* the overshoot of the sample examined last, not the maximum
MaxOvershoot_LastSample(res, setpoint_value, i) ==
    IF i = 0 THEN Zero ELSE Overshoot(res.process_variable[i], setpoint_value)

\* if overshoot > max_overshoot: max_overshoot = overshoot
Larger(max_overshoot, overshoot) ==
    IF RLt(max_overshoot, overshoot) THEN overshoot ELSE max_overshoot

\* the values max_overshoot has taken, with the one after another sample
Examined(peaks, overshoot) == Append(peaks, Larger(Last(peaks), overshoot))

\* the values of max_overshoot, from 0, over the first i samples of
\* "for pv in self.process_variable"
RECURSIVE Peaks(_, _, _)
Peaks(res, setpoint_value, i) ==
    IF i = 0 THEN <<Zero>>
    ELSE Examined(Peaks(res, setpoint_value, i - 1),
                  Overshoot(res.process_variable[i], setpoint_value))

\* max_overshoot after the first i samples
MaxOvershoot(res, setpoint_value, i) == Last(Peaks(res, setpoint_value, i))

\* the mapping returned for a non-empty error list, given the two sums and
\* the final setpoint; x ** 0.5 is taken as the correctly rounded root
Metrics(res, n, iae, ise, setpoint_value) ==
    [iae |-> iae,
     ise |-> ise,
     mae |-> RDiv(iae, R(n, 1)),
     rmse |-> Sqrt(RDiv(ise, R(n, 1))),
     settling_time |->
         SettlingTime(res, setpoint_value, Len(res.process_variable)),
     max_overshoot_percent |->
         IF setpoint_value # Zero
         THEN MaxOvershoot(res, setpoint_value, Len(res.process_variable))
         ELSE Zero,
     final_error |-> res.error[n],
     steady_state_error |-> RAbs(res.error[n])]

\* the empty dict {}
EmptyMapping == [key \in {} |-> Zero]

get_summary(res) ==
    IF res.error = <<>> THEN EmptyMapping
    ELSE Metrics(res, Len(res.error), PySum(AbsErrors(res)),
                 PySum(SquaredErrors(res)),
                 IF res.setpoint # <<>> THEN res.setpoint[Len(res.setpoint)]
                 ELSE Zero)

\* A function of time handed to set_setpoint_profile or set_disturbance:
\* none installed, the step "k if t > t0 else 0.0", or the ramp k*t.
NoFunction == [kind |-> "none", k |-> Zero, t0 |-> Zero]

Step(k, t0) == [kind |-> "step", k |-> k, t0 |-> t0]

Ramp(k) == [kind |-> "ramp", k |-> k, t0 |-> Zero]

\* the installed function called at time t
Apply(f, t) ==
    IF f.kind = "ramp" THEN RMul(f.k, t)
    ELSE IF RLt(f.t0, t) THEN f.k
    ELSE Zero

PIDSimulator(sample_time) ==
    [sample_time |-> sample_time, current_time |-> Zero,
     disturbance_function |-> NoFunction, setpoint_function |-> NoFunction,
     noise_level |-> Zero]

set_disturbance(s, disturbance_func) ==
    [s EXCEPT !.disturbance_function = disturbance_func]

set_setpoint_profile(s, setpoint_func) ==
    [s EXCEPT !.setpoint_function = setpoint_func]

\* a step count that rounds up
NumSteps_RoundsUp(duration, sample_time) ==
    IntTrunc(RDiv(duration, sample_time)) + 1

\* num_steps = int(duration / self.sample_time)
NumSteps(duration, sample_time) == IntTrunc(RDiv(duration, sample_time))

\* a fixed setpoint argument preferred to the installed function
UpdateSetpoint_ArgumentFirst(s, c, setpoint) ==
    IF setpoint # None
    THEN set_setpoint(c, setpoint)
    ELSE IF s.setpoint_function.kind # "none"
    THEN set_setpoint(c, Apply(s.setpoint_function, s.current_time))
    ELSE c

\* "Update setpoint if function provided": the controller afterwards
UpdateSetpoint(s, c, setpoint) ==
    IF s.setpoint_function.kind # "none"
    THEN set_setpoint(c, Apply(s.setpoint_function, s.current_time))
    ELSE IF setpoint # None
    THEN set_setpoint(c, setpoint)
    ELSE c

\* "Apply disturbance if specified"
Disturbance(s) ==
    IF s.disturbance_function.kind # "none"
    THEN Apply(s.disturbance_function, s.current_time)
    ELSE Zero

\* "Update plant with control input and disturbance"
DrivePlant(s, p, control_output, disturbance) ==
    IF HasLoadTorque(p)
    THEN MotorUpdate(p, control_output, s.sample_time, disturbance)
    ELSE PlantUpdate(p, RAdd(control_output, disturbance), s.sample_time)

\* "Progress indicator": step % (num_steps // 10) divides by zero
ProgressRaises(num_steps) == num_steps \div 10 = 0

\* "Update time": self.current_time += self.sample_time
AdvanceTime(s) == [s EXCEPT !.current_time = RAdd(@, s.sample_time)]

\* "Store results", given the three components g
StoreResults(s, k, u, res, g) ==
    add_data_point(res, s.current_time, k.c.setpoint, u.out, k.out,
                   RSub(k.c.setpoint, u.out), g[1], g[2], g[3])

\* "Get PID components for analysis" and "Store results", for a step whose
\* compute call gave k and whose plant update gave u
Analysis(s, k, u, res) ==
    [c |-> k.c, p |-> u.p, pv |-> u.out,
     res |-> StoreResults(s, k, u, res, get_components(k.c, u.out))]

\* the loop body after "Compute control output", given what compute gave
AfterCompute(s, p, k, res) ==
    Analysis(s, k, DrivePlant(s, p, k.out, Disturbance(s)), res)

\* One pass of run_simulation's loop body, up to the progress indicator.
LoopBody(s, c, p, setpoint, process_variable, res) ==
    AfterCompute(s, p,
                 compute(UpdateSetpoint(s, c, setpoint), process_variable,
                         s.current_time),
                 res)

---------------------------------------------------------------------------
(* Input domains of the closed loop.                                       *)

MaxRuns == 3

MaxUpdates == 1

SimTunings == {<<R(1, 2), R(1, 1), R(1, 2)>>}

SimSetpoints == {R(3, 1)}

SimProcessValues == {R(1, 1)}

SimTimes == {R(0, 1), R(1, 1)}

SimSampleTimes == {R(5, 8)}

Plants == {FirstOrderSystem(R(1, 1), R(1, 1), R(1, 1)),
           SecondOrderSystem(R(1, 1), R(1, 4), R(1, 1), R(0, 1), R(1, 1)),
           MotorModel(R(2, 1), R(2, 1), R(1, 1), R(1, 2), R(1, 2),
                      R(0, 1), R(1, 1)),
           TankSystem(R(1, 1), R(1, 2), R(1, 1), R(2, 1))}

\* durations of -2.5, 2.5 and 10.5 sample times, as floats
Durations(sample_time) ==
    {RMul(R(k, 2), sample_time) : k \in {-5, 5, 21}}

RunSetpoints == {None, R(2, 1)}

SetpointFunctions == {NoFunction, Ramp(R(1, 1))}

DisturbanceFunctions == {NoFunction, Step(R(1, 2), R(1, 1))}

Amplitudes == {R(2, 1)}

Slopes == {R(1, 1)}

ControlInputs == {R(1, 1)}

---------------------------------------------------------------------------
(* Calls on the controller.  The program is single threaded: nothing is    *)
(* called while run_simulation is in its loop.                             *)

Idle == pc # "loop"

NoRun == [duration |-> Zero, setpoint |-> None, num_steps |-> 0,
          step |-> 0, process_variable |-> Zero]

NoFirst == [set |-> FALSE]

SetTunings ==
    /\ Idle
    /\ \E g \in Tunings :
        /\ controller' = set_tunings(controller, g[1], g[2], g[3])
        /\ call' = [op |-> "set_tunings", args |-> g, path |-> ""]
        /\ ret' = None
    /\ UNCHANGED simvars

SetSetpoint ==
    /\ Idle
    /\ \E sp \in Setpoints :
        /\ controller' = set_setpoint(controller, sp)
        /\ call' = [op |-> "set_setpoint", args |-> <<sp>>, path |-> ""]
        /\ ret' = None
    /\ UNCHANGED simvars

SetOutputLimits ==
    /\ Idle
    /\ \E lim \in Limits :
        /\ controller' = set_output_limits(controller, lim[1], lim[2])
        /\ call' = [op |-> "set_output_limits", args |-> lim, path |-> ""]
        /\ ret' = None
    /\ UNCHANGED simvars

Reset ==
    /\ Idle
    /\ controller' = reset(controller)
    /\ call' = [op |-> "reset", args |-> <<>>, path |-> ""]
    /\ ret' = None
    /\ UNCHANGED simvars

\* a compute call that gave r: the controller after it, the value returned
Computed(pv, t, r) ==
    /\ controller' = r.c
    /\ call' = [op |-> "compute", args |-> <<pv, t>>, path |-> r.path]
    /\ ret' = r.out

Compute ==
    /\ Idle
    /\ \E pv \in ProcessValues, t \in Times :
        Computed(pv, t, compute(controller, pv, t))
    /\ UNCHANGED simvars

GetComponents ==
    /\ Idle
    /\ \E pv \in ComponentValues :
        /\ controller' = controller
        /\ call' = [op |-> "get_components", args |-> <<pv>>, path |-> ""]
        /\ ret' = get_components(controller, pv)
    /\ UNCHANGED simvars

---------------------------------------------------------------------------
(* Calls on the plant and on the simulator.                                *)

\* controller.compute called by the caller between runs
DirectCompute ==
    /\ Idle
    /\ \E pv \in SimProcessValues, t \in SimTimes :
        Computed(pv, t, compute(controller, pv, t))
    /\ UNCHANGED simvars

\* an update call that gave r: the plant after it, the value returned
Updated(u, dt, r) ==
    /\ plant' = r.p
    /\ call' = [op |-> "update", args |-> <<u, dt>>, path |-> ""]
    /\ ret' = r.out

\* plant.update(u, dt) called by the caller, outside any run
Update ==
    /\ Idle
    /\ updates < MaxUpdates
    /\ \E u \in ControlInputs, dt \in {sim.sample_time} :
        Updated(u, dt, PlantUpdate(plant, u, dt))
    /\ updates' = updates + 1
    /\ UNCHANGED <<controller, sim, pc, run, results, first, runs>>

SetSetpointProfile ==
    /\ Idle
    /\ \E f \in SetpointFunctions \ {NoFunction} :
        /\ sim' = set_setpoint_profile(sim, f)
        /\ call' = [op |-> "set_setpoint_profile", args |-> <<f.k, f.t0>>,
                    path |-> f.kind]
    /\ ret' = None
    /\ UNCHANGED <<controller, plant, pc, run, results, first, runs, updates>>

SetDisturbance ==
    /\ Idle
    /\ \E f \in DisturbanceFunctions \ {NoFunction} :
        /\ sim' = set_disturbance(sim, f)
        /\ call' = [op |-> "set_disturbance", args |-> <<f.k, f.t0>>,
                    path |-> f.kind]
    /\ ret' = None
    /\ UNCHANGED <<controller, plant, pc, run, results, first, runs, updates>>

\* What a run_simulation call is given: its arguments, the simulator's
\* settings, and the controller's gains and limits.
CallOf(duration, setpoint, s, c) ==
    [duration |-> duration, setpoint |-> setpoint,
     sample_time |-> s.sample_time,
     setpoint_function |-> s.setpoint_function,
     disturbance_function |-> s.disturbance_function,
     kp |-> c.kp, ki |-> c.ki, kd |-> c.kd,
     output_min |-> c.output_min, output_max |-> c.output_max]

\* run_simulation, "Initialize" and "Get initial conditions"
RunSimulation ==
    /\ Idle
    /\ runs < MaxRuns
    /\ \E duration \in Durations(sim.sample_time), setpoint \in RunSetpoints :
        /\ run' = [duration |-> duration, setpoint |-> setpoint,
                   num_steps |-> NumSteps(duration, sim.sample_time),
                   step |-> 0,
                   process_variable |-> PlantReset(plant).state]
        /\ call' = [op |-> "run_simulation", args |-> <<duration, setpoint>>,
                    path |-> ""]
    /\ results' = SimulationResults
    /\ sim' = [sim EXCEPT !.current_time = Zero]
    /\ controller' = reset(controller)
    /\ plant' = PlantReset(plant)
    /\ pc' = "loop"
    /\ ret' = None
    /\ runs' = runs + 1
    /\ updates' = 0
    /\ UNCHANGED first

\* the loop body gave b; then "Progress indicator" and "Update time"
Stepped(b) ==
    /\ controller' = b.c
    /\ plant' = b.p
    /\ results' = b.res
    /\ IF ProgressRaises(run.num_steps)
       THEN /\ pc' = "raised"
            /\ sim' = sim
            /\ run' = [run EXCEPT !.process_variable = b.pv]
            /\ call' = [call EXCEPT !.path = "ZeroDivisionError"]
       ELSE /\ pc' = "loop"
            /\ sim' = AdvanceTime(sim)
            /\ run' = [run EXCEPT !.process_variable = b.pv,
                                  !.step = @ + 1]
            /\ call' = call

\* one iteration of "for step in range(num_steps)"
LoopStep ==
    /\ pc = "loop"
    /\ run.step < run.num_steps
    /\ Stepped(LoopBody(sim, controller, plant, run.setpoint,
                        run.process_variable, results))
    /\ UNCHANGED <<ret, first, runs, updates>>

\* the loop is over: the summary is printed and the results returned
Return ==
    /\ pc = "loop"
    /\ run.step >= run.num_steps
    /\ pc' = "returned"
    /\ ret' = results
    /\ call' = [call EXCEPT !.path = "return"]
    /\ first' = IF first.set THEN first
                ELSE [set |-> TRUE,
                      call |-> CallOf(run.duration, run.setpoint, sim,
                                      controller),
                      setpoint |-> controller.setpoint,
                      results |-> results]
    /\ UNCHANGED <<controller, plant, sim, run, results, runs, updates>>

\* run_simulation entered from a convenience operation op, on the simulator
\* s it has prepared: "Initialize" and "Get initial conditions"
Delegated(op, args, duration, setpoint, s) ==
    /\ run' = [duration |-> duration, setpoint |-> setpoint,
               num_steps |-> NumSteps(duration, s.sample_time),
               step |-> 0,
               process_variable |-> PlantReset(plant).state]
    /\ call' = [op |-> op, args |-> args, path |-> ""]
    /\ results' = SimulationResults
    /\ sim' = [s EXCEPT !.current_time = Zero]
    /\ controller' = reset(controller)
    /\ plant' = PlantReset(plant)
    /\ pc' = "loop"
    /\ ret' = None
    /\ runs' = runs + 1
    /\ updates' = 0
    /\ UNCHANGED first

\* step_response(amplitude, duration):
\* return self.run_simulation(duration, setpoint=amplitude)
StepResponse ==
    /\ Idle
    /\ runs < MaxRuns
    /\ \E amplitude \in Amplitudes, duration \in Durations(sim.sample_time) :
        Delegated("step_response", <<amplitude, duration>>, duration,
                  amplitude, sim)

\* ramp_response(slope, duration): self.set_setpoint_profile(ramp_setpoint),
\* return self.run_simulation(duration)
RampResponse ==
    /\ Idle
    /\ runs < MaxRuns
    /\ \E slope \in Slopes, duration \in Durations(sim.sample_time) :
        Delegated("ramp_response", <<slope, duration>>, duration, None,
                  set_setpoint_profile(sim, Ramp(slope)))

---------------------------------------------------------------------------
(* Spec: the controller on its own, any caller, any order of calls.        *)

Init ==
    /\ \E g \in Tunings, sp \in Setpoints, st \in SampleTimes :
          controller = PIDController(g[1], g[2], g[3], sp, st)
    /\ call = [op |-> "__init__", args |-> <<>>, path |-> ""]
    /\ ret = None
    /\ plant = FirstOrderSystem(R(1, 1), R(1, 1), Zero)
    /\ sim = PIDSimulator(R(1, 2))
    /\ pc = "idle"
    /\ run = NoRun
    /\ results = SimulationResults
    /\ first = NoFirst
    /\ runs = 0
    /\ updates = 0

Next ==
    \/ SetTunings
    \/ SetSetpoint
    \/ SetOutputLimits
    \/ Reset
    \/ Compute
    \/ GetComponents

Spec == Init /\ [][Next]_vars

---------------------------------------------------------------------------
(* SpecSim: a controller, a plant and a simulator over them; the caller    *)
(* runs simulations and, between runs, calls compute and update itself.    *)

InitSim ==
    /\ \E g \in SimTunings, sp \in SimSetpoints, st \in SampleTimes :
          controller = PIDController(g[1], g[2], g[3], sp, st)
    /\ call = [op |-> "__init__", args |-> <<>>, path |-> ""]
    /\ ret = None
    /\ plant \in Plants
    /\ sim \in {PIDSimulator(st) : st \in SimSampleTimes}
    /\ pc = "idle"
    /\ run = NoRun
    /\ results = SimulationResults
    /\ first = NoFirst
    /\ runs = 0
    /\ updates = 0

NextSim ==
    \/ DirectCompute
    \/ Update
    \/ SetSetpointProfile
    \/ SetDisturbance
    \/ RunSimulation
    \/ LoopStep
    \/ Return

SpecSim == InitSim /\ [][NextSim]_vars

---------------------------------------------------------------------------
(* SpecResponse: the convenience operations step_response and              *)
(* ramp_response on one simulator, in any order, with set_setpoint_profile *)
(* and set_disturbance between them.  sine_response differs from           *)
(* ramp_response only in the function it installs and is not an action.    *)

NextResponse ==
    \/ SetSetpointProfile
    \/ SetDisturbance
    \/ StepResponse
    \/ RampResponse
    \/ LoopStep
    \/ Return

SpecResponse == InitSim /\ [][NextResponse]_vars

---------------------------------------------------------------------------
(* SpecPlant: one plant of any variant, constructed with any parameters,   *)
(* on which the caller calls update and reset in any order.                *)

MaxSteps == 3

PlantModels ==
    {FirstOrderSystem(R(2, 1), R(1, 1), R(1, 1)),
     FirstOrderSystem(Zero, R(1, 1), Zero),
     SecondOrderSystem(R(1, 1), R(1, 4), R(1, 1), R(1, 1), R(-1, 1)),
     MotorModel(R(2, 1), R(2, 1), R(1, 1), R(1, 2), R(1, 2), R(1, 1), R(1, 1)),
     MotorModel(R(2, 1), Zero, R(1, 1), R(1, 2), R(1, 2), Zero, Zero),
     MotorModel(R(2, 1), R(2, 1), R(1, 1), Zero, R(1, 2), Zero, Zero),
     TankSystem(R(1, 1), R(1, 2), R(-1, 1), R(2, 1)),
     TankSystem(R(1, 1), R(1, 2), R(1, 1), R(2, 1)),
     TankSystem(R(1, 1), R(1, 2), R(3, 1), R(2, 1)),
     TankSystem(R(1, 1), R(1, 2), Zero, Zero),
     TankSystem(Zero, R(1, 2), R(-1, 1), R(2, 1))}

PlantInputs == {R(-2, 1), R(1, 1), R(4, 1)}

PlantSteps == {R(1, 2), R(-1, 1)}

LoadTorques == {Zero, R(1, 1)}

\* a division of update has a zero divisor: ZeroDivisionError
DividesByZero(p) ==
    \/ p.kind = "FirstOrderSystem" /\ p.time_constant = Zero
    \/ p.kind = "MotorModel" /\ (p.L = Zero \/ p.J = Zero)
    \/ p.kind = "TankSystem" /\ p.area = Zero

\* the plant as update leaves it when it raises: the motor's current is
\* assigned before the division by J, the tank's negative level is raised
\* to 0 before the division by area
AtRaise(p, control_input, dt) ==
    IF p.kind = "MotorModel" /\ p.L # Zero
    THEN [p EXCEPT !.current =
              RAdd(p.current,
                   RMul(DiDt(p, control_input, RMul(p.Ke, p.state)), dt))]
    ELSE IF p.kind = "TankSystem" THEN NonNegative(p)
    ELSE p

Raised(p) == [p |-> p, out |-> None, path |-> "ZeroDivisionError"]

Returned(r) == [p |-> r.p, out |-> r.out, path |-> ""]

\* plant.update(control_input, dt) or, on a motor,
\* plant.update(control_input, dt, load_torque)
UpdateResult(p, control_input, dt, load_torque) ==
    IF DividesByZero(p) THEN Raised(AtRaise(p, control_input, dt))
    ELSE IF p.kind = "MotorModel"
    THEN Returned(MotorUpdate(p, control_input, dt, load_torque))
    ELSE Returned(PlantUpdate(p, control_input, dt))

\* the load torques a caller can pass to this plant's update
LoadTorquesOf(p) == IF p.kind = "MotorModel" THEN LoadTorques ELSE {None}

Finished(args, r) ==
    /\ plant' = r.p
    /\ call' = [op |-> "update", args |-> args, path |-> r.path]
    /\ ret' = r.out

PlantUpdateCall ==
    /\ updates < MaxSteps
    /\ \E u \in PlantInputs, dt \in PlantSteps, lt \in LoadTorquesOf(plant) :
        Finished(<<u, dt, lt>>, UpdateResult(plant, u, dt, lt))
    /\ updates' = updates + 1
    /\ UNCHANGED <<controller, sim, pc, run, results, first, runs>>

PlantResetCall ==
    /\ plant' = PlantReset(plant)
    /\ call' = [op |-> "plant.reset", args |-> <<>>, path |-> ""]
    /\ ret' = None
    /\ UNCHANGED <<controller, sim, pc, run, results, first, runs, updates>>

InitPlant ==
    /\ controller = PIDController(R(1, 1), Zero, Zero, Zero, R(1, 2))
    /\ call = [op |-> "__init__", args |-> <<>>, path |-> ""]
    /\ ret = None
    /\ plant \in PlantModels
    /\ sim = PIDSimulator(R(1, 2))
    /\ pc = "idle"
    /\ run = NoRun
    /\ results = SimulationResults
    /\ first = NoFirst
    /\ runs = 0
    /\ updates = 0

NextPlant ==
    \/ PlantUpdateCall
    \/ PlantResetCall

SpecPlant == InitPlant /\ [][NextPlant]_vars

---------------------------------------------------------------------------
(* SpecMotor: a MotorModel on which the caller calls update, reset and     *)
(* get_position.  The attribute position exists from the first            *)
(* get_position on: it is a field of the plant's record from then on.      *)

MaxReadings == 2

Motors ==
    {MotorModel(R(2, 1), R(2, 1), R(1, 1), R(1, 2), R(1, 2), R(1, 1), R(1, 1)),
     MotorModel(R(2, 1), R(2, 1), R(1, 1), Zero, R(1, 2), R(-1, 1), Zero)}

\* if not hasattr(self, 'position'): self.position = 0.0
WithPosition(p) ==
    IF "position" \in DOMAIN p THEN p ELSE ("position" :> Zero) @@ p

\* self.position += self.state * dt; return self.position
Integrated(p, dt) ==
    [p |-> [p EXCEPT !.position = RAdd(@, RMul(p.state, dt))],
     out |-> RAdd(p.position, RMul(p.state, dt))]

get_position(p, dt) == Integrated(WithPosition(p), dt)

\* get_position gave r
Read(dt, r) ==
    /\ plant' = r.p
    /\ call' = [op |-> "get_position", args |-> <<dt>>, path |-> ""]
    /\ ret' = r.out

GetPosition ==
    /\ runs < MaxReadings
    /\ \E dt \in PlantSteps : Read(dt, get_position(plant, dt))
    /\ runs' = runs + 1
    /\ UNCHANGED <<controller, sim, pc, run, results, first, updates>>

InitMotor ==
    /\ controller = PIDController(R(1, 1), Zero, Zero, Zero, R(1, 2))
    /\ call = [op |-> "__init__", args |-> <<>>, path |-> ""]
    /\ ret = None
    /\ plant \in Motors
    /\ sim = PIDSimulator(R(1, 2))
    /\ pc = "idle"
    /\ run = NoRun
    /\ results = SimulationResults
    /\ first = NoFirst
    /\ runs = 0
    /\ updates = 0

NextMotor ==
    \/ PlantUpdateCall
    \/ PlantResetCall
    \/ GetPosition

SpecMotor == InitMotor /\ [][NextMotor]_vars

---------------------------------------------------------------------------
(* SpecSummary: a SimulationResults filled by add_data_point, sample by    *)
(* sample, and summarised by get_summary at any point.                     *)

MaxSamples == 3

SampleSetpoints == {Zero, R(1, 1), R(-2, 1)}

SampleValues == {Zero, R(1, 64), R(1, 2), R(1, 1)}

\* add_data_point(t, sp, pv, 0.0, sp - pv, 0.0, 0.0, 0.0) at t = 0, 1/2, 1...
AddDataPoint ==
    /\ Len(results.time) < MaxSamples
    /\ \E sp \in SampleSetpoints, pv \in SampleValues :
        /\ results' = add_data_point(results, R(Len(results.time), 2), sp, pv,
                                     Zero, RSub(sp, pv), Zero, Zero, Zero)
        /\ call' = [op |-> "add_data_point", args |-> <<sp, pv>>, path |-> ""]
    /\ ret' = None
    /\ UNCHANGED <<controller, plant, sim, pc, run, first, runs, updates>>

GetSummary ==
    /\ ret' = get_summary(results)
    /\ call' = [op |-> "get_summary", args |-> <<>>, path |-> ""]
    /\ UNCHANGED <<controller, plant, sim, pc, run, results, first, runs,
                   updates>>

InitSummary ==
    /\ controller = PIDController(R(1, 1), Zero, Zero, Zero, R(1, 2))
    /\ call = [op |-> "__init__", args |-> <<>>, path |-> ""]
    /\ ret = None
    /\ plant = FirstOrderSystem(R(1, 1), R(1, 1), Zero)
    /\ sim = PIDSimulator(R(1, 2))
    /\ pc = "idle"
    /\ run = NoRun
    /\ results = SimulationResults
    /\ first = NoFirst
    /\ runs = 0
    /\ updates = 0

NextSummary ==
    \/ AddDataPoint
    \/ GetSummary

SpecSummary == InitSummary /\ [][NextSummary]_vars

---------------------------------------------------------------------------
(* SpecOvershoot: responses to the setpoint 1.0 recorded sample by sample, *)
(* at 0, 0.1, 0.2 ..., and summarised by get_summary.  Each sample is that *)
(* of the overshoot test's series (0.0, 0.5, 1.0, 1.2, 1.1, 1.0; 1.0 from  *)
(* then on), or 1.0, or 0.0.                                               *)

MaxSeries == 6

\* the series of the overshoot test, as floats
TestSeries ==
    <<Zero, R(1, 2), R(1, 1), Fl(R(6, 5)), Fl(R(11, 10)), R(1, 1)>>

ResponseValues(i) ==
    {IF i <= Len(TestSeries) THEN TestSeries[i] ELSE R(1, 1), R(1, 1), Zero}

\* add_data_point(i*0.1, 1.0, pv, 0.0, 1.0 - pv, 0.0, 0.0, 0.0)
AddResponsePoint ==
    /\ Len(results.time) < MaxSeries
    /\ \E pv \in ResponseValues(Len(results.time) + 1) :
        /\ results' = add_data_point(results,
                                     RMul(R(Len(results.time), 1), Fl(R(1, 10))),
                                     R(1, 1), pv, Zero, RSub(R(1, 1), pv),
                                     Zero, Zero, Zero)
        /\ call' = [op |-> "add_data_point", args |-> <<R(1, 1), pv>>,
                    path |-> ""]
    /\ ret' = None
    /\ UNCHANGED <<controller, plant, sim, pc, run, first, runs, updates>>

NextOvershoot ==
    \/ AddResponsePoint
    \/ GetSummary

SpecOvershoot == InitSummary /\ [][NextOvershoot]_vars

---------------------------------------------------------------------------
(* PIDTuner.  Every operation gives the plant as it leaves it, the value   *)
(* it returns, and the exception it raises ("" when it returns).           *)

Returns(p, out) == [p |-> p, out |-> out, path |-> ""]

Raises(p, exception) == [p |-> p, out |-> None, path |-> exception]

\* {'kp': kp, 'ki': ki, 'kd': kd}
Gains(kp, ki, kd) == [kp |-> kp, ki |-> ki, kd |-> kd]

\* the trace t of the step test after one more update, which gave u, at
\* current_time: time_data.append, output_data.append
Traced(t, u, current_time) ==
    IF u.path # "" THEN [t EXCEPT !.p = u.p, !.path = u.path]
    ELSE [t EXCEPT !.p = u.p,
                   !.time_data = Append(@, current_time),
                   !.output_data = Append(@, u.out)]

\* "Simulate step response": for step in range(num_steps), from step on
RECURSIVE StepTest(_, _, _, _, _)
StepTest(t, step_size, sample_time, step, num_steps) ==
    IF step >= num_steps \/ t.path # "" THEN t
    ELSE StepTest(Traced(t, UpdateResult(t.p, step_size, sample_time, Zero),
                         RMul(R(step, 1), sample_time)),
                  step_size, sample_time, step + 1, num_steps)

\* the index of the first value >= threshold from i on, 0 when there is none
RECURSIVE FirstReaching(_, _, _)
FirstReaching(output_data, threshold, i) ==
    IF i > Len(output_data) THEN 0
    ELSE IF RLe(threshold, output_data[i]) THEN i
    ELSE FirstReaching(output_data, threshold, i + 1)

\* "Find delay time (L) - time to reach 10% of final value"
DelayTime(t, steady_state_value) ==
    IF FirstReaching(t.output_data,
                     RMul(Fl(R(1, 10)), steady_state_value), 1) = 0
    THEN Zero
    ELSE t.time_data[FirstReaching(t.output_data,
                                   RMul(Fl(R(1, 10)), steady_state_value), 1)]

\* "Find time constant (T) - time to reach 63.2% of final value"
TimeConstant(t, steady_state_value, delay_time, test_duration) ==
    IF FirstReaching(t.output_data,
                     RMul(Fl(R(632, 1000)), steady_state_value), 1) = 0
    THEN test_duration
    ELSE RSub(t.time_data[FirstReaching(t.output_data,
                              RMul(Fl(R(632, 1000)), steady_state_value), 1)],
              delay_time)

\* "Process gain (K)"
ProcessGain(steady_state_value, step_size) ==
    IF step_size # Zero THEN RDiv(steady_state_value, step_size) ELSE R(1, 1)

\* the dictionary returned, given the Ziegler-Nichols kp of the P, PI and
\* PID controllers
ReactionCurveGains(K, L, T, kp_p, kp_pi, kp_pid) ==
    [process_gain |-> K, delay_time |-> L, time_constant |-> T,
     p_only |-> Gains(kp_p, Zero, Zero),
     pi |-> Gains(kp_pi, RDiv(kp_pi, RMul(Fl(R(33, 10)), L)), Zero),
     pid |-> Gains(kp_pid, RDiv(kp_pid, RMul(R(2, 1), L)),
                   RMul(RMul(kp_pid, R(1, 2)), L))]

\* the fallback constants
FallbackGains(K, L, T) ==
    [process_gain |-> K, delay_time |-> L, time_constant |-> T,
     p_only |-> Gains(R(1, 1), Zero, Zero),
     pi |-> Gains(R(1, 1), Fl(R(1, 10)), Zero),
     pid |-> Gains(R(1, 1), Fl(R(1, 10)), Fl(R(1, 100)))]

\* the rules proper, given process_gain * delay_time / time_constant
Rules(p, K, L, T, ratio) ==
    IF ratio = Zero THEN Raises(p, "ZeroDivisionError")
    ELSE Returns(p, ReactionCurveGains(K, L, T, RDiv(R(1, 1), ratio),
                                       RDiv(Fl(R(9, 10)), ratio),
                                       RDiv(Fl(R(6, 5)), ratio)))

\* "Ziegler-Nichols tuning rules"
TuningRules(p, K, L, T) ==
    IF RLt(Zero, L) /\ RLt(Zero, T)
    THEN Rules(p, K, L, T, RDiv(RMul(K, L), T))
    ELSE Returns(p, FallbackGains(K, L, T))

\* "Find process characteristics", given the delay time
Characteristics(t, steady_state_value, step_size, test_duration, L) ==
    TuningRules(t.p, ProcessGain(steady_state_value, step_size), L,
                TimeConstant(t, steady_state_value, L, test_duration))

\* the rest of ziegler_nichols_open_loop, given the trace of the step test:
\* steady_state_value = output_data[-1] raises on an empty trace
Identified(t, step_size, test_duration) ==
    IF t.path # "" THEN Raises(t.p, t.path)
    ELSE IF t.output_data = <<>> THEN Raises(t.p, "IndexError")
    ELSE Characteristics(t, Last(t.output_data), step_size, test_duration,
                         DelayTime(t, Last(t.output_data)))

ziegler_nichols_open_loop(p, sample_time, step_size, test_duration) ==
    Identified(StepTest([p |-> PlantReset(p), time_data |-> <<>>,
                         output_data |-> <<>>, path |-> ""],
                        step_size, sample_time, 0,
                        NumSteps(test_duration, sample_time)),
               step_size, test_duration)

\* the Cohen-Coon dictionary, given alpha = L / T and K * alpha
CohenCoonGains(K, L, T, alpha, kp_p, kp_pi, kp_pid) ==
    [process_gain |-> K, delay_time |-> L, time_constant |-> T,
     alpha |-> alpha,
     p_only |-> Gains(kp_p, Zero, Zero),
     pi |-> Gains(kp_pi,
                  RDiv(RMul(kp_pi, RAdd(Fl(R(127, 100)),
                                        RMul(Fl(R(3, 5)), alpha))),
                       RMul(L, RAdd(R(1, 1), RMul(Fl(R(3, 10)), alpha)))),
                  Zero),
     pid |-> Gains(kp_pid,
                   RDiv(RMul(kp_pid, RAdd(Fl(R(27, 20)),
                                          RMul(R(1, 4), alpha))),
                        RMul(L, RAdd(Fl(R(27, 50)),
                                     RMul(Fl(R(33, 100)), alpha)))),
                   RDiv(RMul(RMul(kp_pid, L),
                             RSub(R(1, 2), RMul(Fl(R(3, 20)), alpha))),
                        RAdd(Fl(R(27, 20)), RMul(R(1, 4), alpha))))]

\* "Cohen-Coon parameters", given alpha and K * alpha
CohenCoonRules(p, K, L, T, alpha, Kalpha) ==
    IF Kalpha = Zero THEN Raises(p, "ZeroDivisionError")
    ELSE Returns(p, CohenCoonGains(K, L, T, alpha,
             RDiv(RAdd(Fl(R(103, 100)), RMul(Fl(R(7, 20)), alpha)), Kalpha),
             RDiv(RAdd(Fl(R(9, 10)), RMul(Fl(R(83, 1000)), alpha)), Kalpha),
             RDiv(RAdd(Fl(R(27, 20)), RMul(R(1, 4), alpha)), Kalpha)))

\* cohen_coon_tuning after the identification, which gave zn
CohenCoon(zn) ==
    IF zn.path # "" THEN zn
    ELSE IF RLe(zn.out.delay_time, Zero) \/ RLe(zn.out.time_constant, Zero)
    THEN zn
    ELSE CohenCoonRules(zn.p, zn.out.process_gain, zn.out.delay_time,
                        zn.out.time_constant,
                        RDiv(zn.out.delay_time, zn.out.time_constant),
                        RMul(zn.out.process_gain,
                             RDiv(zn.out.delay_time, zn.out.time_constant)))

cohen_coon_tuning(p, sample_time, step_size, test_duration) ==
    CohenCoon(ziegler_nichols_open_loop(p, sample_time, step_size,
                                        test_duration))

\* a divisor of the IMC rules is zero: T, T + 0.5 * L or 2 * T + L
ImcDividesByZero(L, T) ==
    \/ T = Zero
    \/ RAdd(T, RMul(R(1, 2), L)) = Zero
    \/ RAdd(RMul(R(2, 1), T), L) = Zero

\* the dictionary imc_tuning returns, given the gains of its two controllers
ImcGains(K, L, T, lambda_c, pi, pid) ==
    [process_gain |-> K, delay_time |-> L, time_constant |-> T,
     lambda_c |-> lambda_c,
     pi |-> Gains(pi.kp, pi.ki, Zero), pid |-> pid]

\* "IMC-PID tuning rules for first-order plus dead time"
ImcRules(p, K, L, T, lambda_c) ==
    IF K # Zero /\ RLt(Zero, lambda_c)
    THEN IF ImcDividesByZero(L, T) THEN Raises(p, "ZeroDivisionError")
         ELSE Returns(p, ImcGains(K, L, T, lambda_c,
                  Gains(RDiv(T, RMul(K, RAdd(lambda_c, L))),
                        RDiv(R(1, 1), T), Zero),
                  Gains(RDiv(RAdd(T, RMul(R(1, 2), L)),
                             RMul(K, RAdd(lambda_c, RMul(R(1, 2), L)))),
                        RDiv(R(1, 1), RAdd(T, RMul(R(1, 2), L))),
                        RDiv(RMul(T, L), RAdd(RMul(R(2, 1), T), L)))))
    ELSE Returns(p, ImcGains(K, L, T, lambda_c,
                             Gains(Fl(R(1, 10)), Fl(R(1, 10)), Fl(R(1, 10))),
                             Gains(Fl(R(1, 10)), Fl(R(1, 10)), Fl(R(1, 10)))))

\* imc_tuning after the identification, which gave zn:
\* lambda_c = max(L, 0.1) when no time constant is asked for
Imc(zn, desired_closed_loop_time_constant) ==
    IF zn.path # "" THEN zn
    ELSE ImcRules(zn.p, zn.out.process_gain, zn.out.delay_time,
                  zn.out.time_constant,
                  IF desired_closed_loop_time_constant = None
                  THEN PyMax(zn.out.delay_time, Fl(R(1, 10)))
                  ELSE desired_closed_loop_time_constant)

imc_tuning(p, sample_time, desired_closed_loop_time_constant, step_size, test_duration) ==
    Imc(ziegler_nichols_open_loop(p, sample_time, step_size, test_duration),
        desired_closed_loop_time_constant)

\* "Progress indicator", after the loop body gave a
Progressed(a, num_steps) ==
    [c |-> a.c, p |-> a.p, pv |-> a.pv, res |-> a.res,
     path |-> IF ProgressRaises(num_steps) THEN "ZeroDivisionError" ELSE ""]

\* one pass of run_simulation's loop from b, in which the plant's update or
\* the progress indicator may raise
Pass(s, b, setpoint, num_steps) ==
    IF DividesByZero(b.p)
    THEN [b EXCEPT !.p = AtRaise(b.p,
                                 compute(UpdateSetpoint(s, b.c, setpoint),
                                         b.pv, s.current_time).out,
                                 s.sample_time),
                   !.path = "ZeroDivisionError"]
    ELSE Progressed(LoopBody(s, b.c, b.p, setpoint, b.pv, b.res), num_steps)

\* "for step in range(num_steps)" from step on, until a pass raises
RECURSIVE Passes(_, _, _, _, _)
Passes(s, b, setpoint, step, num_steps) ==
    IF step >= num_steps \/ b.path # "" THEN b
    ELSE Passes(AdvanceTime(s), Pass(s, b, setpoint, num_steps), setpoint,
                step + 1, num_steps)

\* return results, or the exception of the pass that raised
Completed(b) ==
    IF b.path # "" THEN Raises(b.p, b.path) ELSE Returns(b.p, b.res)

\* run_simulation from "Get initial conditions" on
Simulated(s, c, p, setpoint, num_steps) ==
    Completed(Passes(s, [c |-> c, p |-> p, pv |-> p.state,
                         res |-> SimulationResults, path |-> ""],
                     setpoint, 0, num_steps))

\* run_simulation(duration, setpoint) as one call on a simulator s just
\* constructed over the controller c and the plant p
run_simulation(s, c, p, duration, setpoint) ==
    Simulated([s EXCEPT !.current_time = Zero], reset(c), PlantReset(p),
              setpoint, NumSteps(duration, s.sample_time))

\* PIDController(**params, setpoint=...), PIDSimulator(controller,
\* self.plant, self.sample_time) and simulator.run_simulation(duration,
\* setpoint)
ClosedLoop(p, sample_time, params, duration, setpoint) ==
    run_simulation(PIDSimulator(sample_time),
                   PIDController(params.kp, params.ki, params.kd, setpoint,
                                 Fl(R(1, 100))),
                   p, duration, setpoint)

\* compare_tuning_methods so far: the plant, the results map, and the
\* families whose failure was printed
Comparison(p) == [p |-> p, results |-> EmptyMapping, failed |-> <<>>]

Failed_Unlogged(acc, family, r) == [acc EXCEPT !.p = r.p]

\* except Exception as e: print(f"... tuning failed: {e}")
Failed(acc, family, r) ==
    [acc EXCEPT !.p = r.p, !.failed = Append(@, family)]

\* results[method_name] = {...}, given what run_simulation returned
Stored(acc, method_name, params, r) ==
    [acc EXCEPT !.p = r.p,
                !.results = (method_name :> [parameters |-> params,
                                             performance |-> get_summary(r.out),
                                             simulation_data |-> r.out]) @@ @]

\* a family's "for method_name, params in [...]" from its i-th method on,
\* and the pass for one method given what its simulation gave
RECURSIVE Methods(_, _, _, _, _, _, _, _)
RECURSIVE Method(_, _, _, _, _, _, _, _, _)
Method(acc, family, tuned, names, keys, i, tuner, setpoint, r) ==
    IF r.path # "" THEN Failed(acc, family, r)
    ELSE Methods(Stored(acc, names[i], tuned[keys[i]], r), family, tuned,
                 names, keys, i + 1, tuner, setpoint)

Methods(acc, family, tuned, names, keys, i, tuner, setpoint) ==
    IF i > Len(names) THEN acc
    ELSE Method(acc, family, tuned, names, keys, i, tuner, setpoint,
                ClosedLoop(acc.p, tuner.sample_time, tuned[keys[i]],
                           tuner.test_duration, setpoint))

\* one family's try block, given what its tuning method gave
Tried(acc, family, r, names, keys, tuner, setpoint) ==
    IF r.path # "" THEN Failed(acc, family, r)
    ELSE Methods([acc EXCEPT !.p = r.p], family, r.out, names, keys, 1,
                 tuner, setpoint)

\* "Ziegler-Nichols"
TryZieglerNichols(acc, tuner, setpoint) ==
    Tried(acc, "Ziegler-Nichols",
          ziegler_nichols_open_loop(acc.p, tuner.sample_time, R(1, 1),
                                    R(20, 1)),
          <<"ZN_P", "ZN_PI", "ZN_PID">>, <<"p_only", "pi", "pid">>,
          tuner, setpoint)

\* "Cohen-Coon"
TryCohenCoon(acc, tuner, setpoint) ==
    Tried(acc, "Cohen-Coon",
          cohen_coon_tuning(acc.p, tuner.sample_time, R(1, 1), R(20, 1)),
          <<"CC_PI", "CC_PID">>, <<"pi", "pid">>, tuner, setpoint)

\* "IMC"
TryImc(acc, tuner, setpoint) ==
    Tried(acc, "IMC",
          imc_tuning(acc.p, tuner.sample_time, None, R(1, 1), R(20, 1)),
          <<"IMC_PI", "IMC_PID">>, <<"pi", "pid">>, tuner, setpoint)

\* return results, after the comparison summary is printed
Compared(acc) == [p |-> acc.p, out |-> acc.results, path |-> "",
                  failed |-> acc.failed]

\* the tuner's sample_time and the duration of the test simulations
Tuner(sample_time, test_duration) ==
    [sample_time |-> sample_time, test_duration |-> test_duration]

\* the three try blocks one after the other, each on what the one before
\* left
TriedAll(p, tuner, test_setpoint) ==
    {TryImc(cc, tuner, test_setpoint) :
        cc \in {TryCohenCoon(zn, tuner, test_setpoint) :
            zn \in {TryZieglerNichols(Comparison(p), tuner, test_setpoint)}}}

compare_tuning_methods(p, sample_time, test_setpoint, test_duration) ==
    CHOOSE r \in {Compared(acc) :
                     acc \in TriedAll(p, Tuner(sample_time, test_duration),
                                      test_setpoint)} : TRUE

---------------------------------------------------------------------------
(* PIDTuner.optimize_parameters.  A performance, a gradient or a gain may  *)
(* be float('inf'), float('-inf') or nan; the closed loop is simulated for *)
(* finite gains.                                                           *)

Inf == <<1, 0>>

NegInf == <<-1, 0>>

NaN == <<0, 0>>

Finite(x) == x[2] # 0

\* a < b
FLess(a, b) ==
    IF a = NaN \/ b = NaN THEN FALSE
    ELSE IF a = Inf \/ b = NegInf THEN FALSE
    ELSE IF a = NegInf \/ b = Inf THEN TRUE
    ELSE RLt(a, b)

\* a + b and a - b
FAdd(a, b) ==
    IF Finite(a) /\ Finite(b) THEN RAdd(a, b)
    ELSE IF a = NaN \/ b = NaN THEN NaN
    ELSE IF Finite(b) THEN a
    ELSE IF Finite(a) \/ a = b THEN b
    ELSE NaN

FSub(a, b) ==
    FAdd(a, IF Finite(b) THEN RSub(Zero, b)
            ELSE IF b = Inf THEN NegInf
            ELSE IF b = NegInf THEN Inf
            ELSE NaN)

\* a * k and a / k for a finite k > 0
FScaled(a, k) == IF Finite(a) THEN RMul(a, k) ELSE a

FOver(a, k) == IF Finite(a) THEN RDiv(a, k) ELSE a

\* max(a, b)
FMax(a, b) == IF FLess(a, b) THEN b ELSE a

learning_rate == Fl(R(1, 10))

epsilon == Fl(R(1, 1000000))

\* ['kp', 'ki', 'kd']
Params == <<"kp", "ki", "kd">>

\* the arguments of _evaluate_performance that stay the same over a call
Job(sample_time, optimization_target, test_duration, setpoint) ==
    [sample_time |-> sample_time, criterion |-> optimization_target,
     duration |-> test_duration, setpoint |-> setpoint]

\* summary.get(key, float('inf'))
SummaryGet(summary, key) ==
    IF key \in DOMAIN summary THEN summary[key] ELSE Inf

\* "Calculate performance metric"
Criterion(summary, criterion) ==
    IF criterion = "ise" THEN SummaryGet(summary, "ise")
    ELSE IF criterion = "iae" THEN SummaryGet(summary, "iae")
    ELSE IF criterion = "settling_time"
    THEN IF Truthy(SummaryGet(summary, "settling_time"))
         THEN SummaryGet(summary, "settling_time")
         ELSE Inf
    ELSE IF criterion = "overshoot"
    THEN SummaryGet(summary, "max_overshoot_percent")
    ELSE SummaryGet(summary, "rmse")

\* the metric of what run_simulation returned, or its exception
Measured(r, criterion) ==
    IF r.path # "" THEN r
    ELSE Returns(r.p, Criterion(get_summary(r.out), criterion))

_evaluate_performance(p, job, params) ==
    Measured(ClosedLoop(p, job.sample_time, params, job.duration,
                        job.setpoint),
             job.criterion)

\* optimize_parameters before its loop: the caller's dictionary, the two
\* copies and best_performance; starts and probes list the points the
\* iterations evaluated
Optimization(p, initial_params) ==
    [p |-> p, initial_params |-> initial_params,
     current_params |-> initial_params, best_params |-> initial_params,
     best_performance |-> Inf, starts |-> <<>>, probes |-> <<>>,
     path |-> ""]

\* an evaluation raised
Aborted(o, e) == [o EXCEPT !.p = e.p, !.path = e.path]

Kept_Latest(o, performance) ==
    [o EXCEPT !.best_performance = performance,
              !.best_params = o.current_params,
              !.starts = Append(@, [params |-> o.current_params,
                                    performance |-> performance])]

\* "if performance < best_performance": best_params is a copy, which the
\* later updates of current_params leave alone
Kept(o, performance) ==
    [o EXCEPT !.best_performance =
                  IF FLess(performance, @) THEN performance ELSE @,
              !.best_params =
                  IF FLess(performance, o.best_performance)
                  THEN o.current_params ELSE @,
              !.starts = Append(@, [params |-> o.current_params,
                                    performance |-> performance])]

\* params_plus = current_params.copy(); params_plus[param] += epsilon
Plus(params, param) == [params EXCEPT ![param] = FAdd(@, epsilon)]

\* gradient = (performance_plus - performance) / epsilon
Gradient(performance_plus, performance) ==
    FOver(FSub(performance_plus, performance), epsilon)

Descend_Unclamped(value, gradient) ==
    FSub(value, FScaled(gradient, learning_rate))

\* current_params[param] -= learning_rate * gradients[param], then
\* max(0.001, current_params[param])
Descend(value, gradient) ==
    FMax(Fl(R(1, 1000)), FSub(value, FScaled(gradient, learning_rate)))

\* "Update parameters using gradient descent"
Descended(o, gradients) ==
    [o EXCEPT !.current_params =
                  [param \in DOMAIN @ |->
                      IF \E i \in 1..Len(Params) : Params[i] = param
                      THEN Descend(@[param],
                                   gradients[CHOOSE i \in 1..Len(Params) :
                                                 Params[i] = param])
                      ELSE @[param]]]

\* the probe of the i-th parameter was evaluated
Noted(o, e, i) ==
    [o EXCEPT !.p = e.p,
              !.probes = Append(@, Plus(o.current_params, Params[i]))]

\* "Calculate gradients" from the i-th parameter on, then the update
RECURSIVE Probing(_, _, _, _, _)
RECURSIVE Probed(_, _, _, _, _, _)
Probed(o, job, performance, gradients, i, e) ==
    IF e.path # "" THEN Aborted(o, e)
    ELSE Probing(Noted(o, e, i), job, performance,
                 Append(gradients, Gradient(e.out, performance)), i + 1)

Probing(o, job, performance, gradients, i) ==
    IF i > Len(Params) THEN Descended(o, gradients)
    ELSE Probed(o, job, performance, gradients, i,
                _evaluate_performance(o.p, job,
                                      Plus(o.current_params, Params[i])))

\* one iteration, given the evaluation of current_params
Iterated(o, job, e) ==
    IF e.path # "" THEN Aborted(o, e)
    ELSE Probing(Kept([o EXCEPT !.p = e.p], e.out), job, e.out, <<>>, 1)

\* "for iteration in range(max_iterations)" from iteration on
RECURSIVE Iterations(_, _, _, _)
Iterations(o, job, iteration, max_iterations) ==
    IF iteration >= max_iterations \/ o.path # "" THEN o
    ELSE Iterations(Iterated(o, job,
                             _evaluate_performance(o.p, job,
                                                   o.current_params)),
                    job, iteration + 1, max_iterations)

\* return best_params, with what the call did to the caller's dictionary,
\* the current point it ended at and the points it evaluated
Optimized(o) ==
    [p |-> o.p, out |-> IF o.path # "" THEN None ELSE o.best_params,
     path |-> o.path, initial_params |-> o.initial_params,
     current_params |-> o.current_params, starts |-> o.starts,
     probes |-> o.probes]

optimize_parameters(p, sample_time, initial_params, optimization_target, test_duration, setpoint, max_iterations) ==
    Optimized(Iterations(Optimization(p, initial_params),
                         Job(sample_time, optimization_target,
                             test_duration, setpoint),
                         0, max_iterations))

---------------------------------------------------------------------------
(* SpecTuning: a PIDTuner over one plant, whose tuning methods the caller  *)
(* calls in any order.  The plant is the variable plant, the tuner's       *)
(* sample_time is sim.sample_time.  The tuners are ones whose test         *)
(* simulations stay within the integers of the model: slow plants sampled  *)
(* coarsely, among them plants identified with no delay, with neither      *)
(* delay nor time constant, a plant whose update divides by zero, and a    *)
(* sample_time longer than the step test.                                  *)

\* PIDTuner(plant, sample_time), as <<plant, sample_time>>
Tuners ==
    {<<FirstOrderSystem(R(16, 1), R(1, 1), Zero), R(1, 1)>>,
     <<TankSystem(R(8, 1), R(1, 4), Zero, R(4, 1)), R(1, 2)>>,
     <<TankSystem(R(1, 1), R(1, 2), Zero, R(2, 1)), R(1, 1)>>,
     <<FirstOrderSystem(R(1, 1), R(-1, 1), Zero), R(1, 2)>>,
     <<FirstOrderSystem(Zero, R(1, 1), Zero), R(1, 1)>>,
     <<FirstOrderSystem(R(16, 1), R(1, 1), Zero), R(32, 1)>>}

StepSizes == {R(-1, 1), Zero, R(1, 1)}

\* test durations: the defaults 20.0 and 15.0, and 0.25 and 5.0
IdentificationDurations == {R(20, 1), R(1, 4)}

ComparisonDurations == {R(15, 1), R(5, 1)}

ClosedLoopTimeConstants == {None, R(1, 1)}

\* a tuning method returned or raised r
Tuned(op, args, r) ==
    /\ plant' = r.p
    /\ call' = [op |-> op, args |-> args, path |-> r.path]
    /\ ret' = r.out

ZieglerNicholsOpenLoop ==
    /\ \E step_size \in StepSizes, test_duration \in IdentificationDurations :
        Tuned("ziegler_nichols_open_loop", <<step_size, test_duration>>,
              ziegler_nichols_open_loop(plant, sim.sample_time, step_size,
                                        test_duration))
    /\ UNCHANGED <<controller, sim, pc, run, results, first, runs, updates>>

CohenCoonTuning ==
    /\ \E step_size \in StepSizes, test_duration \in IdentificationDurations :
        Tuned("cohen_coon_tuning", <<step_size, test_duration>>,
              cohen_coon_tuning(plant, sim.sample_time, step_size,
                                test_duration))
    /\ UNCHANGED <<controller, sim, pc, run, results, first, runs, updates>>

ImcTuning ==
    /\ \E lambda_c \in ClosedLoopTimeConstants, step_size \in StepSizes :
        Tuned("imc_tuning", <<lambda_c, step_size, R(20, 1)>>,
              imc_tuning(plant, sim.sample_time, lambda_c, step_size,
                         R(20, 1)))
    /\ UNCHANGED <<controller, sim, pc, run, results, first, runs, updates>>

\* compare_tuning_methods returned r, having printed the failures r.failed
Sweep(args, r) ==
    /\ plant' = r.p
    /\ call' = [op |-> "compare_tuning_methods", args |-> args,
                path |-> r.path, failed |-> r.failed]
    /\ ret' = r.out

CompareTuningMethods ==
    /\ \E test_setpoint \in {R(1, 1)}, test_duration \in ComparisonDurations :
        Sweep(<<test_setpoint, test_duration>>,
              compare_tuning_methods(plant, sim.sample_time, test_setpoint,
                                     test_duration))
    /\ UNCHANGED <<controller, sim, pc, run, results, first, runs, updates>>

InitTuning ==
    /\ controller = PIDController(R(1, 1), Zero, Zero, Zero, R(1, 2))
    /\ call = [op |-> "__init__", args |-> <<>>, path |-> ""]
    /\ ret = None
    /\ \E tuner \in Tuners :
        /\ plant = tuner[1]
        /\ sim = PIDSimulator(tuner[2])
    /\ pc = "idle"
    /\ run = NoRun
    /\ results = SimulationResults
    /\ first = NoFirst
    /\ runs = 0
    /\ updates = 0

NextTuning ==
    \/ ZieglerNicholsOpenLoop
    \/ CohenCoonTuning
    \/ ImcTuning
    \/ CompareTuningMethods

SpecTuning == InitTuning /\ [][NextTuning]_vars

---------------------------------------------------------------------------
(* SpecOptimize: optimize_parameters called on a PIDTuner, with the        *)
(* default setpoint 1.0.                                                   *)

MaxOptimizations == 1

MaxIterations == 2

OptimizedTuners ==
    {<<FirstOrderSystem(R(16, 1), R(1, 1), Zero), R(1, 1)>>,
     <<FirstOrderSystem(R(1, 1), R(1, 1), Zero), R(1, 2)>>}

\* initial gains, none of them 0: at the precision of the model epsilon
\* added to a gain other than 0 leaves the gain as it is
InitialParams ==
    {Gains(R(1, 1), R(1, 8), R(1, 4)),
     Gains(R(-1, 1), R(-1, 8), R(1, 4)),
     Gains(R(1, 2), R(1, 2048), R(1, 4))}

\* 'ise', 'settling_time' and a target that is none of the four named
OptimizationTargets == {"ise", "settling_time", "itae"}

\* the default 10.0, and 5.0 and 0.25
OptimizationDurations == {R(10, 1), R(5, 1), R(1, 4)}

\* optimize_parameters returned or raised r
Searched(args, r) ==
    /\ plant' = r.p
    /\ call' = [op |-> "optimize_parameters", args |-> args,
                path |-> r.path, initial_params |-> r.initial_params,
                current_params |-> r.current_params, starts |-> r.starts,
                probes |-> r.probes]
    /\ ret' = r.out

OptimizeParameters ==
    /\ runs < MaxOptimizations
    /\ \E initial_params \in InitialParams,
          optimization_target \in OptimizationTargets,
          test_duration \in OptimizationDurations,
          max_iterations \in 0..MaxIterations :
        Searched(<<initial_params, optimization_target, test_duration,
                   max_iterations>>,
                 optimize_parameters(plant, sim.sample_time, initial_params,
                                     optimization_target, test_duration,
                                     R(1, 1), max_iterations))
    /\ runs' = runs + 1
    /\ UNCHANGED <<controller, sim, pc, run, results, first, updates>>

InitOptimize ==
    /\ controller = PIDController(R(1, 1), Zero, Zero, Zero, R(1, 2))
    /\ call = [op |-> "__init__", args |-> <<>>, path |-> ""]
    /\ ret = None
    /\ \E tuner \in OptimizedTuners :
        /\ plant = tuner[1]
        /\ sim = PIDSimulator(tuner[2])
    /\ pc = "idle"
    /\ run = NoRun
    /\ results = SimulationResults
    /\ first = NoFirst
    /\ runs = 0
    /\ updates = 0

NextOptimize == OptimizeParameters

SpecOptimize == InitOptimize /\ [][NextOptimize]_vars

---------------------------------------------------------------------------
(* What the claims speak of.                                               *)

Histories(c) ==
    <<c.time_history, c.error_history, c.output_history,
      c.setpoint_history, c.process_variable_history>>

Configuration(c) ==
    <<c.kp, c.ki, c.kd, c.setpoint, c.sample_time, c.output_min, c.output_max>>

\* this step is a compute call made while Uninitialized
SeedCall == call'.op = "compute" /\ controller.last_time = None

\* this step is a compute call made while Running with dt <= 0
StaleCall ==
    /\ call'.op = "compute"
    /\ controller.last_time # None
    /\ RLe(call'.args[2], controller.last_time)

\* this step is a compute call made while Running with dt > 0
InitializedCall ==
    /\ call'.op = "compute"
    /\ controller.last_time # None
    /\ RLt(controller.last_time, call'.args[2])

\* e, dt and P + I + D of this step's compute call, from the state before it
CallError == RSub(controller.setpoint, call'.args[1])

CallDt == RSub(call'.args[2], controller.last_time)

\* P + I + D as the claim writes it, for the error e and the time delta dt
ClaimedRaw(c, e, dt) ==
    RAdd(RAdd(RMul(c.kp, e), RMul(c.ki, RAdd(c.integral, RMul(e, dt)))),
         RDiv(RMul(c.kd, RSub(e, c.last_error)), dt))

\* raw lies below output_min or above output_max
BelowLimits(c, raw) == c.output_min # None /\ RLt(raw, c.output_min)

AboveLimits(c, raw) == c.output_max # None /\ RLt(c.output_max, raw)

CallRaw == ClaimedRaw(controller, CallError, CallDt)

\* C1: the first compute call after construction or reset() returns 0,
\* records the timestamp and the error as the last values, and changes
\* neither the integral accumulator nor any history list.
C1_SeedStepReturnsZero ==
    [][SeedCall =>
          /\ ret' = Zero
          /\ controller'.last_time = call'.args[2]
          /\ controller'.last_error = CallError
          /\ controller'.integral = controller.integral
          /\ Histories(controller') = Histories(controller)]_vars

C1_Witness ==
    /\ call.op = "compute" /\ call.path = "seed"
    /\ ret = Zero
    /\ controller.last_time = call.args[2]
    /\ controller.last_error # Zero
    /\ controller.kp # Zero
    /\ controller.output_max # None

\* the accumulator after a step: unchanged when raw is clamped, grown by
\* the increment otherwise
RevertedOrGrown(c, raw, increment, after) ==
    IF BelowLimits(c, raw) \/ AboveLimits(c, raw)
    THEN after = c.integral
    ELSE after = RAdd(c.integral, increment)

\* C2, as claimed: on an initialized step with dt > 0 whose raw output
\* P + I + D lies below output_min or above output_max the integral
\* accumulator is the same after the step as before it; on a step that is
\* not clamped it grows by exactly error * dt.
C2_AsClaimed ==
    [][InitializedCall =>
          RevertedOrGrown(controller, CallRaw, RMul(CallError, CallDt),
                          controller'.integral)]_vars

\* C3: a compute call on a Running controller with a timestamp not after
\* the last recorded one (dt <= 0) returns 0 and leaves the whole controller
\* (accumulator, last error, last timestamp, the five histories) unchanged.
C3_StaleStepIsNoOp ==
    [][StaleCall => ret' = Zero /\ controller' = controller]_vars

C3_Witness ==
    /\ call.op = "compute" /\ call.path = "stale"
    /\ RLt(call.args[2], controller.last_time)
    /\ RSub(controller.setpoint, call.args[1]) # controller.last_error
    /\ Len(controller.time_history) >= 1
    /\ ret = Zero

\* out is raw, replaced by the limit it violates
ClampedTo(c, raw, out) ==
    out = IF BelowLimits(c, raw) THEN c.output_min
          ELSE IF AboveLimits(c, raw) THEN c.output_max
          ELSE raw

\* C4: on an initialized step with dt > 0 the value returned is
\* kp*e + ki*(accumulator + e*dt) + kd*(e - last_error)/dt, replaced by the
\* violated limit when it lies outside [output_min, output_max]; with
\* ki = kd = 0 and no limits it is kp*e.
C4_OutputIsClampedPID ==
    [][InitializedCall =>
          /\ ClampedTo(controller, CallRaw, ret')
          /\ (/\ controller.ki = Zero /\ controller.kd = Zero
              /\ controller.output_min = None /\ controller.output_max = None)
             => ret' = RMul(controller.kp, CallError)]_vars

C4_Witness ==
    /\ call.op = "compute" /\ call.path = "step"
    /\ controller.kd # Zero /\ controller.ki # Zero
    /\ controller.output_min # None
    /\ Len(controller.time_history) >= 2
    /\ ret[2] # 1

\* C5: reset() sets the accumulator and the last error to 0, the last
\* timestamp to None and empties the five histories; gains, setpoint,
\* sample period and both limits keep their values.
C5_ResetClearsTransientOnly ==
    [][call'.op = "reset" =>
          /\ controller'.integral = Zero
          /\ controller'.last_error = Zero
          /\ controller'.last_time = None
          /\ Histories(controller') = <<<<>>, <<>>, <<>>, <<>>, <<>>>>
          /\ Configuration(controller') = Configuration(controller)]_vars

C5_Witness ==
    /\ call.op = "reset"
    /\ controller.last_time = None
    /\ controller.integral = Zero
    /\ controller.time_history = <<>>
    /\ controller.output_max # None
    /\ controller.setpoint # Zero

\* C6: the controller is Uninitialized (no last timestamp) after
\* construction and after every reset(); the first compute call moves it to
\* Running; in Running only reset() returns it to Uninitialized, and in
\* Uninitialized only compute leaves it.
C6_TwoStateMachine ==
    /\ controller.last_time = None
    /\ [][/\ call'.op = "reset" => controller'.last_time = None
          /\ SeedCall => controller'.last_time # None
          /\ (controller.last_time # None /\ call'.op # "reset")
                 => controller'.last_time # None
          /\ (controller.last_time = None /\ call'.op # "compute")
                 => controller'.last_time = None]_vars

C6_Witness ==
    /\ call.op = "get_components"
    /\ controller.last_time # None
    /\ Len(controller.time_history) >= 1

\* The setters change only the fields they name.
SettersFrame ==
    /\ call'.op = "set_tunings" =>
          controller' = [controller EXCEPT !.kp = call'.args[1],
                                           !.ki = call'.args[2],
                                           !.kd = call'.args[3]]
    /\ call'.op = "set_setpoint" =>
          controller' = [controller EXCEPT !.setpoint = call'.args[1]]
    /\ call'.op = "set_output_limits" =>
          controller' = [controller EXCEPT !.output_min = call'.args[1],
                                           !.output_max = call'.args[2]]

\* C7, as claimed: the setters change only the fields they name, and the
\* integral accumulator changes value only inside a compute call that is
\* an initialized step with dt > 0.
C7_AsClaimed ==
    [][/\ SettersFrame
       /\ controller'.integral # controller.integral => InitializedCall]_vars

\* C7, amended: the setters change only the fields they name, and the
\* integral accumulator changes value only inside a compute call that is
\* an initialized step with dt > 0, or inside reset(), which sets it to 0.
C7_AccumulatorChangesInStepOrReset ==
    [][/\ SettersFrame
       /\ controller'.integral # controller.integral =>
             \/ InitializedCall
             \/ call'.op = "reset" /\ controller'.integral = Zero]_vars

C7_Witness ==
    /\ call.op = "set_setpoint"
    /\ controller.integral # Zero
    /\ controller.last_time # None
    /\ Len(controller.time_history) >= 1
    /\ controller.setpoint # controller.setpoint_history[1]

\* the lengths of the eight result sequences
ResultLengths(res) ==
    {Len(res.time), Len(res.setpoint), Len(res.process_variable),
     Len(res.control_output), Len(res.error), Len(res.p_component),
     Len(res.i_component), Len(res.d_component)}

\* consecutive recorded times increase, each by exactly h
ExactGrid(time, h) ==
    \A i \in 1..(Len(time) - 1) :
        /\ RLt(time[i], time[i + 1])
        /\ Difference(Common(time[i + 1], time[i])) = h

\* consecutive recorded times increase, each the float sum of the one
\* before it and h
FloatGrid(time, h) ==
    \A i \in 1..(Len(time) - 1) :
        /\ RLt(time[i], time[i + 1])
        /\ time[i + 1] = RAdd(time[i], h)

Max(a, b) == IF a < b THEN b ELSE a

\* C8, as claimed: when run_simulation returns, each of the eight result
\* sequences has int(duration / sample_time) entries, one appended per
\* step, and the recorded times increase strictly, consecutive ones
\* differing by exactly sample_time.
C8_AsClaimed ==
    /\ pc \in {"loop", "returned"} => ResultLengths(results) = {run.step}
    /\ pc = "returned" =>
          /\ Len(results.time) = IntTrunc(RDiv(run.duration, sim.sample_time))
          /\ ExactGrid(results.time, sim.sample_time)

\* C8, amended: when run_simulation returns, each of the eight result
\* sequences has max(0, int(duration / sample_time)) entries, one appended
\* per step, and the recorded times increase strictly, each the float sum
\* of the one before it and sample_time.
C8_ResultLengthAndTimeGrid ==
    /\ pc \in {"loop", "returned"} => ResultLengths(results) = {run.step}
    /\ pc = "returned" =>
          /\ Len(results.time)
                 = Max(0, IntTrunc(RDiv(run.duration, sim.sample_time)))
          /\ FloatGrid(results.time, sim.sample_time)

C8_Witness ==
    /\ pc = "returned"
    /\ ResultLengths(results) = {10}
    /\ FloatGrid(results.time, sim.sample_time)
    /\ ~ExactGrid(results.time, sim.sample_time)

\* C9, as claimed: in a run of N steps with sample time h the i-th recorded
\* timestamp, counting from 0, is (i+1)*h: the first is h and the last is
\* N*h.
C9_AsClaimed ==
    pc = "returned" =>
        \A i \in 1..Len(results.time) :
            results.time[i] = RMul(R(i, 1), sim.sample_time)

\* the call of the run that has just returned
ThisCall == CallOf(run.duration, run.setpoint, sim, controller)

\* C10, as claimed: run_simulation resets both the controller and the plant
\* before its first step, so two run_simulation calls with the same
\* arguments on the same simulator, controller and plant (same gains,
\* limits, setpoint function and disturbance function), whatever was called
\* in between, return identical results.
C10_AsClaimed ==
    (pc = "returned" /\ first.set /\ ThisCall = first.call)
        => results = first.results

\* the dynamic state update reads, and its construction-time value
DynamicState(p) ==
    IF p.kind = "SecondOrderSystem" THEN <<p.state, p.velocity>>
    ELSE IF p.kind = "MotorModel" THEN <<p.state, p.current>>
    ELSE <<p.state>>

InitialDynamicState(p) ==
    IF p.kind = "SecondOrderSystem" THEN <<p.initial_state, p.initial_velocity>>
    ELSE IF p.kind = "MotorModel" THEN <<p.initial_state, p.initial_current>>
    ELSE <<p.initial_state>>

\* run_simulation enters its loop with the controller and the plant reset
ResetAtEntry ==
    (pc = "loop" /\ run.step = 0) =>
        /\ controller.integral = Zero
        /\ controller.last_error = Zero
        /\ controller.last_time = None
        /\ Histories(controller) = <<<<>>, <<>>, <<>>, <<>>, <<>>>>
        /\ DynamicState(plant) = InitialDynamicState(plant)
        /\ run.process_variable = plant.initial_state
        /\ sim.current_time = Zero

\* C10, amended: run_simulation resets both the controller and the plant
\* before its first step, and two calls as above return identical results
\* when the run is given its setpoint (a setpoint function is installed or
\* a setpoint argument is passed); with neither, when the controller's
\* setpoint, which reset() keeps, is also the same at both calls.
C10_SameCallSameResults ==
    /\ ResetAtEntry
    /\ (/\ pc = "returned" /\ first.set /\ ThisCall = first.call
        /\ \/ sim.setpoint_function.kind # "none"
           \/ run.setpoint # None
           \/ controller.setpoint = first.setpoint)
           => results = first.results

C10_Witness ==
    /\ pc = "returned" /\ first.set /\ ThisCall = first.call
    /\ runs = 3
    /\ run.setpoint = None /\ sim.setpoint_function.kind = "none"
    /\ controller.setpoint = first.setpoint
    /\ plant.kind = "SecondOrderSystem"
    /\ Len(results.time) = 10
    /\ results = first.results

\* C11, as claimed: after any earlier calls on the same simulator
\* (ramp_response and set_setpoint_profile among them)
\* step_response(amplitude, duration) runs against a constant setpoint: the
\* setpoint recorded at every sample of its results equals amplitude.
C11_AsClaimed ==
    call.op = "step_response" =>
        \A i \in 1..Len(results.setpoint) : results.setpoint[i] = call.args[1]

\* this step is one pass of run_simulation's loop body
LoopPass == pc = "loop" /\ results' # results

\* the setpoint a pass must use: the installed function at time t, else
\* the setpoint argument, else the setpoint the controller already has
ActiveSetpoint(s, setpoint, c, t) ==
    IF s.setpoint_function.kind # "none" THEN Apply(s.setpoint_function, t)
    ELSE IF setpoint # None THEN setpoint
    ELSE c.setpoint

DisturbanceAt(s, t) ==
    IF s.disturbance_function.kind = "none" THEN Zero
    ELSE Apply(s.disturbance_function, t)

\* the update call the claim prescribes for control output u, disturbance d
Routed(p, u, dt, d) ==
    IF p.kind = "MotorModel" THEN MotorUpdate(p, u, dt, d)
    ELSE PlantUpdate(p, RAdd(u, d), dt)

\* the plant and the process value after a pass are those of the call r
PlantDrivenBy(r) ==
    /\ plant' = r.p
    /\ Last(results'.process_variable) = r.out

\* C13: at every step of run_simulation the disturbance
\* d = disturbance_function(t) (0 when no function is set) reaches the
\* plant so: a MotorModel is called update(control_output, sample_time, d),
\* d the load torque and the voltage the unmodified control output; a
\* FirstOrderSystem, SecondOrderSystem or TankSystem is called
\* update(control_output + d, sample_time).
C13_DisturbanceRouting ==
    [][LoopPass =>
          PlantDrivenBy(Routed(plant, Last(results'.control_output),
                               sim.sample_time,
                               DisturbanceAt(sim, Last(results'.time))))]_vars

C13_Witness ==
    /\ pc = "loop" /\ call.op = "run_simulation"
    /\ plant.kind = "MotorModel"
    /\ Len(results.time) >= 4
    /\ DisturbanceAt(sim, Last(results.time)) = R(1, 2)
    /\ Last(results.control_output) # Zero
    /\ Last(results.process_variable) = plant.state

\* this step is an update call on a TankSystem with 0 <= max_level
TankUpdateCall ==
    /\ call'.op = "update"
    /\ plant.kind = "TankSystem"
    /\ RLe(Zero, plant.max_level)

\* C14: for a TankSystem with 0 <= max_level the level update(inflow, dt)
\* returns, which is the state stored afterwards, lies in [0, max_level]
\* for every inflow, every dt and every prior state, and update never
\* hands math.sqrt a negative level.
C14_TankLevelWithinLimits ==
    [][TankUpdateCall =>
          /\ RLe(Zero, RootOperand(NonNegative(plant)))
          /\ call'.path = "" =>
                 /\ ret' = plant'.state
                 /\ RLe(Zero, ret')
                 /\ RLe(ret', plant.max_level)]_vars

C14_Witness ==
    /\ call.op = "update" /\ call.path = ""
    /\ plant.kind = "TankSystem"
    /\ RLt(plant.initial_state, Zero)
    /\ RLt(Zero, plant.max_level)
    /\ plant.state = plant.max_level
    /\ ret = plant.state
    /\ updates >= 2

\* C15, as claimed: in every reachable state of a TankSystem, immediately
\* after construction with any initial_level and immediately after reset()
\* included, the stored level lies in [0, max_level].
C15_AsClaimed ==
    (plant.kind = "TankSystem" /\ RLe(Zero, plant.max_level)) =>
        /\ RLe(Zero, plant.state)
        /\ RLe(plant.state, plant.max_level)

\* the plant constructed anew with the parameters and initial values of p
Fresh(p) ==
    IF p.kind = "FirstOrderSystem"
    THEN FirstOrderSystem(p.time_constant, p.gain, p.initial_state)
    ELSE IF p.kind = "SecondOrderSystem"
    THEN SecondOrderSystem(p.natural_frequency, p.damping_ratio, p.gain,
                           p.initial_state, p.initial_velocity)
    ELSE IF p.kind = "MotorModel"
    THEN MotorModel(p.R, p.L, p.Kt, p.J, p.B, p.initial_state,
                    p.initial_current)
    ELSE TankSystem(p.area, p.k_outlet, p.initial_state, p.max_level)

\* every update call gives on p what it gives on q
SameOutputs(p, q) ==
    \A u \in PlantInputs, dt \in PlantSteps, lt \in LoadTorquesOf(p) :
        UpdateResult(p, u, dt, lt) = UpdateResult(q, u, dt, lt)

\* C16: for every plant variant, after any sequence of update calls,
\* reset() restores every piece of dynamic state that update reads to its
\* construction-time value (FirstOrder output; SecondOrder position and
\* velocity; Motor angular velocity and armature current; Tank level), so
\* updates after a reset give what they give on a freshly constructed
\* plant.
C16_ResetRestoresPlant ==
    [][call'.op = "plant.reset" =>
          /\ Fresh(plant) \in PlantModels
          /\ DynamicState(plant') = InitialDynamicState(plant)
          /\ plant' = Fresh(plant)
          /\ SameOutputs(plant', Fresh(plant))]_vars

C16_Witness ==
    /\ call.op = "plant.reset"
    /\ updates >= 2
    /\ plant.kind = "MotorModel"
    /\ ~DividesByZero(plant)
    /\ plant.current = plant.initial_current
    /\ plant.current # Zero

\* C17, as claimed: a FirstOrderSystem with time constant 0, a MotorModel
\* with inductance 0 or inertia 0 and a TankSystem with area 0 are rejected
\* at construction, so no update call on a constructed plant raises a
\* division-by-zero fault.
C17_AsClaimed ==
    ~(call.op = "update" /\ call.path = "ZeroDivisionError")

\* the last call was get_summary on results holding n >= 1 samples
Summarised == call.op = "get_summary" /\ results.error # <<>>

\* the sum of |e_1| ... |e_i|, and of their squares
RECURSIVE SigmaAbs(_, _)
SigmaAbs(e, i) ==
    IF i = 0 THEN Zero ELSE RAdd(SigmaAbs(e, i - 1), RAbs(e[i]))

RECURSIVE SigmaSquares(_, _)
SigmaSquares(e, i) ==
    IF i = 0 THEN Zero ELSE RAdd(SigmaSquares(e, i - 1), RMul(e[i], e[i]))

\* C18: get_summary() on results with no samples returns an empty mapping
\* without error; on n >= 1 samples it returns iae = the sum of |e_i|,
\* ise = the sum of e_i^2, mae = iae/n, final_error = the last error sample
\* and steady_state_error = |final_error|, over the whole error series.
C18_SummaryMetrics ==
    /\ (call.op = "get_summary" /\ results.error = <<>>) => DOMAIN ret = {}
    /\ Summarised =>
          /\ ret.iae = SigmaAbs(results.error, Len(results.error))
          /\ ret.ise = SigmaSquares(results.error, Len(results.error))
          /\ ret.mae = RDiv(ret.iae, R(Len(results.error), 1))
          /\ ret.final_error = Last(results.error)
          /\ ret.steady_state_error = RAbs(ret.final_error)

C18_Witness ==
    /\ Summarised
    /\ Len(results.error) = 3
    /\ RLt(results.error[1], Zero)
    /\ RLt(Zero, results.error[2])
    /\ RLt(Last(results.error), Zero)
    /\ ret.steady_state_error # ret.final_error
    /\ ret.mae # ret.iae

\* the samples whose process value lies outside the band of the tolerance
\* around the final setpoint
OutsideSamples(res, sp, tolerance) ==
    {i \in 1..Len(res.process_variable) :
        RLt(tolerance, RAbs(RSub(res.process_variable[i], sp)))}

\* 2% of the final setpoint's magnitude, or 0.02 when it is 0
TwoPercentOf(sp) ==
    IF sp = Zero THEN Fl(R(2, 100)) ELSE RMul(Fl(R(2, 100)), RAbs(sp))

Highest(S) == CHOOSE i \in S : \A j \in S : j <= i

\* the timestamp of the highest-index sample of S, None when S is empty
TimeOfLast(res, S) == IF S = {} THEN None ELSE res.time[Highest(S)]

Deviations(res, sp) ==
    {RMul(RDiv(RAbs(RSub(res.process_variable[i], sp)), RAbs(sp)), R(100, 1)) :
        i \in 1..Len(res.process_variable)}

Greatest(S) == CHOOSE x \in S : \A y \in S : RLe(y, x)

RisesThrough(res, sp) ==
    /\ RLt(res.process_variable[1], sp)
    /\ \E i \in 2..Len(res.process_variable) : RLt(sp, res.process_variable[i])

\* (pv_i - sp) / sp * 100 for the samples above, or below, the setpoint
Excesses(res, sp) ==
    {RMul(RDiv(RSub(res.process_variable[i], sp), sp), R(100, 1)) :
        i \in {j \in 1..Len(res.process_variable) :
                  RLt(sp, res.process_variable[j])}}

Shortfalls(res, sp) ==
    {RMul(RDiv(RSub(sp, res.process_variable[i]), sp), R(100, 1)) :
        i \in {j \in 1..Len(res.process_variable) :
                  RLt(res.process_variable[j], sp)}}

Degenerate(d) == RLe(d.delay_time, Zero) \/ RLe(d.time_constant, Zero)

\* the gain sets of d are the fallback constants
HoldsFallback(d) ==
    /\ d.p_only = Gains(R(1, 1), Zero, Zero)
    /\ d.pi = Gains(R(1, 1), Fl(R(1, 10)), Zero)
    /\ d.pid = Gains(R(1, 1), Fl(R(1, 10)), Fl(R(1, 100)))

\* C22, as claimed: for every plant and every step_size
\* ziegler_nichols_open_loop returns, without raising, a result holding
\* the p_only, pi and pid gain sets and the identified K, L and T; when
\* L <= 0 or T <= 0 the gains are the fallback constants, and
\* cohen_coon_tuning then returns that same fallback result rather than
\* failing.
C22_AsClaimed ==
    /\ call.op = "ziegler_nichols_open_loop" =>
          /\ call.path = ""
          /\ DOMAIN ret = {"process_gain", "delay_time", "time_constant",
                           "p_only", "pi", "pid"}
          /\ Degenerate(ret) => HoldsFallback(ret)
    /\ (call.op = "cohen_coon_tuning" /\ call.path = "") =>
          (Degenerate(ret) =>
              /\ HoldsFallback(ret)
              /\ "alpha" \notin DOMAIN ret)

\* compare_tuning_methods was called
Swept == call.op = "compare_tuning_methods"

\* what the step test of compare_tuning_methods identifies for the plant
StepIdentification ==
    ziegler_nichols_open_loop(plant, sim.sample_time, R(1, 1), R(20, 1))

\* the plant's identification is degenerate in its delay: L <= 0
DegenerateDelay ==
    /\ StepIdentification.path = ""
    /\ RLe(StepIdentification.out.delay_time, Zero)

\* the entries under keys are there, each with its parameters and its
\* performance summary
HasEntries(keys) ==
    /\ keys \subseteq DOMAIN ret
    /\ \A key \in keys :
          {"parameters", "performance"} \subseteq DOMAIN ret[key]

\* C23, as claimed: compare_tuning_methods against a plant whose
\* identification is degenerate (L <= 0, whatever T is identified)
\* returns a map that contains ZN_P, ZN_PI, ZN_PID, IMC_PI and IMC_PID,
\* each with parameters and a performance summary.
C23_AsClaimed ==
    (Swept /\ DegenerateDelay) =>
        /\ call.path = ""
        /\ HasEntries({"ZN_P", "ZN_PI", "ZN_PID", "IMC_PI", "IMC_PID"})

\* the families in the order of their try blocks, with the keys of their
\* methods in the order they are simulated
Families ==
    <<[name |-> "Ziegler-Nichols", keys |-> <<"ZN_P", "ZN_PI", "ZN_PID">>],
      [name |-> "Cohen-Coon", keys |-> <<"CC_PI", "CC_PID">>],
      [name |-> "IMC", keys |-> <<"IMC_PI", "IMC_PID">>]>>

\* the keys of the first n methods of a family
FirstKeys(family, n) == {family.keys[i] : i \in 1..n}

\* the family's failure was caught and printed
Logged(family) == \E i \in 1..Len(call.failed) : call.failed[i] = family.name

\* the family's entries in the map returned are those of the methods
\* before its failure, all of them when it did not fail
EntriesUpToFailure(family) ==
    IF Logged(family)
    THEN \E n \in 0..(Len(family.keys) - 1) :
            DOMAIN ret \cap FirstKeys(family, Len(family.keys))
                = FirstKeys(family, n)
    ELSE FirstKeys(family, Len(family.keys)) \subseteq DOMAIN ret

\* C24: compare_tuning_methods never propagates an exception of a
\* family's identification or closed-loop simulation: it returns a map
\* whose keys are among ZN_P, ZN_PI, ZN_PID, CC_PI, CC_PID, IMC_PI and
\* IMC_PID; a family that fails is logged once and contributes no entry
\* from the point of failure on; and every family, also one after a
\* failed family, is attempted: it is either logged as failed or has all
\* its entries.
C24_SweepNeverAborts ==
    Swept =>
        /\ call.path = ""
        /\ DOMAIN ret
              \subseteq UNION {FirstKeys(Families[f], Len(Families[f].keys)) :
                                 f \in 1..Len(Families)}
        /\ \A f \in 1..Len(Families) : EntriesUpToFailure(Families[f])
        /\ \A i, j \in 1..Len(call.failed) :
              i < j =>
                  \E f, g \in 1..Len(Families) :
                      /\ f < g
                      /\ call.failed[i] = Families[f].name
                      /\ call.failed[j] = Families[g].name

\* every closed-loop simulation raised (a test of 5 steps), after an
\* identification that succeeded: all three families are logged, none has
\* an entry
C24_Witness ==
    /\ Swept
    /\ StepIdentification.path = ""
    /\ call.failed = <<"Ziegler-Nichols", "Cohen-Coon", "IMC">>
    /\ DOMAIN ret = {}

\* optimize_parameters was called and returned
Optimised == call.op = "optimize_parameters" /\ call.path = ""

\* the iteration-start point of least performance, the earliest of them
\* on ties: better than every earlier one, no worse than any later one
Best(starts) ==
    CHOOSE i \in 1..Len(starts) :
        /\ Finite(starts[i].performance)
        /\ \A j \in 1..(i - 1) :
              FLess(starts[i].performance, starts[j].performance)
        /\ \A j \in (i + 1)..Len(starts) :
              ~FLess(starts[j].performance, starts[i].performance)

Clamped(params) ==
    \A i \in 1..Len(Params) : ~FLess(params[Params[i]], Fl(R(1, 1000)))

\* C26: in optimize_parameters every iteration's update leaves kp, ki and
\* kd of the current point at least 0.001, so the start point of every
\* iteration from the second on, and the point the call ends at, has all
\* three gains >= 0.001; and the three probes of an iteration are its
\* start point with epsilon added to kp, to ki and to kd: each gradient
\* is taken from the point before the update.
C26_GainsClamped ==
    call.op = "optimize_parameters" =>
        /\ \A i \in 2..Len(call.starts) : Clamped(call.starts[i].params)
        /\ Len(call.starts) >= 1 /\ call.path = ""
              => Clamped(call.current_params)
        /\ \A i \in 1..Len(call.starts) :
              \A k \in 1..Len(Params) :
                  Len(Params) * (i - 1) + k <= Len(call.probes) =>
                      call.probes[Len(Params) * (i - 1) + k]
                          = Plus(call.starts[i].params, Params[k])

\* from negative gains the first update brings kp and ki up to 0.001, and
\* the second iteration starts there
C26_Witness ==
    /\ Optimised
    /\ call.args[4] = 2
    /\ RLt(call.args[1].kp, Zero)
    /\ call.starts[1].params = call.args[1]
    /\ call.starts[2].params.kp = Fl(R(1, 1000))
    /\ call.starts[2].params.ki = Fl(R(1, 1000))
    /\ Len(call.probes) = 6
    /\ Clamped(call.current_params)

\* C27, as claimed: run_simulation returns normally, raising no
\* exception, for every duration >= 0 and sample_time > 0, also when the
\* step count int(duration / sample_time) is 0 or between 1 and 9.
C27_AsClaimed ==
    (/\ call.op = "run_simulation"
     /\ RLe(Zero, run.duration)
     /\ RLt(Zero, sim.sample_time)) => pc # "raised"

\* each list has one entry more: those of the entry given
Appended(before, after, entry) ==
    \A k \in 1..5 : after[k] = Append(before[k], entry[k])

\* the step is a compute call that took the given path
ComputeStep(paths) == call'.op = "compute" /\ call'.path \in paths

\* C28: the five history lists of the controller always have the same
\* length, which counts the compute calls since the last reset that were
\* initialized steps with dt > 0: such a step, clamped or not, appends
\* one entry (timestamp, error, the output returned, setpoint, process
\* value) and updates last error and last timestamp; the seed step and a
\* stale step append nothing; reset empties the lists; no other call
\* touches them.
C28_HistoryPerStep ==
    [][/\ \A k \in 1..5 :
             Len(Histories(controller')[k]) = Len(controller'.time_history)
       /\ IF ComputeStep({"step", "clamped"})
          THEN /\ Appended(Histories(controller),
                           Histories(controller'),
                           <<call'.args[2],
                             RSub(controller.setpoint, call'.args[1]),
                             ret', controller.setpoint, call'.args[1]>>)
               /\ controller'.last_error
                     = RSub(controller.setpoint, call'.args[1])
               /\ controller'.last_time = call'.args[2]
               /\ controller.last_time # None
               /\ RLt(controller.last_time, call'.args[2])
          ELSE IF call'.op = "reset"
          THEN \A k \in 1..5 : Histories(controller')[k] = <<>>
          ELSE Histories(controller') = Histories(controller)
      ]_vars

\* a second step after the seed step, clamped to the upper limit: two
\* entries in every list, the last output the limit
C28_Witness ==
    /\ call.op = "compute"
    /\ call.path = "clamped"
    /\ \A k \in 1..5 : Len(Histories(controller)[k]) = 2
    /\ Last(controller.output_history) = controller.output_max
    /\ ret = controller.output_max
    /\ controller.last_time = call.args[2]
    /\ Last(controller.time_history) = call.args[2]

\* C29, as claimed: get_components(pv) returns (kp * e, ki * accumulator,
\* D) with e = setpoint - pv, where D = kd * (e - last_error) /
\* sample_time whenever the controller is Running (has a last timestamp,
\* whatever its value) and D = 0 when it is Uninitialized.
C29_AsClaimed ==
    call.op = "get_components" =>
        ret = <<RMul(controller.kp, Error(controller, call.args[1])),
                RMul(controller.ki, controller.integral),
                IF controller.last_time # None
                THEN RDiv(RMul(controller.kd,
                               RSub(Error(controller, call.args[1]),
                                    controller.last_error)),
                          controller.sample_time)
                ELSE Zero>>

\* the position accumulated so far: 0 before the first get_position
Position(p) == IF "position" \in DOMAIN p THEN p.position ELSE Zero

\* the plant apart from its position accumulator
ApartFromPosition(p) == [f \in DOMAIN p \ {"position"} |-> p[f]]

\* C30: MotorModel.get_position(dt) adds angular velocity * dt to a
\* position accumulator that starts at 0 on first use, returns the running
\* total and changes nothing else; reset() and update() leave the
\* accumulator as it is, absent or present, so the position carries over
\* across reset() while angular velocity and current are restored.
C30_PositionCarriesOver ==
    [][/\ call'.op = "get_position" =>
             /\ plant'.position
                   = RAdd(Position(plant), RMul(plant.state, call'.args[1]))
             /\ ret' = plant'.position
             /\ ApartFromPosition(plant') = ApartFromPosition(plant)
       /\ call'.op \in {"plant.reset", "update"} =>
             /\ ("position" \in DOMAIN plant') = ("position" \in DOMAIN plant)
             /\ Position(plant') = Position(plant)
       /\ call'.op = "plant.reset" =>
             /\ plant'.state = plant.initial_state
             /\ plant'.current = plant.initial_current
      ]_vars

\* a reset after two readings and an update: the speed and the current
\* are back at their initial values, the position read is still there
C30_Witness ==
    /\ call.op = "plant.reset"
    /\ runs = 2
    /\ updates >= 1
    /\ "position" \in DOMAIN plant
    /\ plant.position # Zero
    /\ plant.state = plant.initial_state
    /\ plant.current = plant.initial_current

=============================================================================
